---------------------------- MODULE Spec2Model ----------------------------
(***************************************************************************)
(* sqld: SQL over HTTP.  A model of the request-to-SQL translation and      *)
(* response-shaping layer (parseRequest, the squirrel statement builders,   *)
(* readQuery/execQuery, raw, writeResponse, HandleQuery).                   *)
(*                                                                         *)
(* Text supplied by the client (table and column names, filter values,     *)
(* limits, raw SQL, body values) is a sequence of one-character strings,    *)
(* so that the code's scanning functions (strconv.Atoi, strings.Split,      *)
(* strings.TrimSpace, strings.ContainsAny, strconv.Quote) are computed      *)
(* character by character.  A generated SQL text is the sequence of the     *)
(* fragments the builder writes, in writing order, client text one          *)
(* character per fragment.                                                  *)
(***************************************************************************)
EXTENDS Integers, Sequences, FiniteSets, TLC

(***************************************************************************)
(* Bounds of the model.                                                     *)
(***************************************************************************)
MaxRows == 2

(***************************************************************************)
(* HTTP status codes used by the program (net/http).                        *)
(***************************************************************************)
StatusOK == 200
StatusBadRequest == 400
StatusNoContent == 204
StatusNotFound == 404
StatusMethodNotAllowed == 405
StatusInternalServerError == 500

(***************************************************************************)
(* Sequence helpers.                                                        *)
(***************************************************************************)
Range(s) == { s[i] : i \in 1..Len(s) }

RECURSIVE Concat(_)
Concat(ss) == IF ss = <<>> THEN <<>> ELSE Head(ss) \o Concat(Tail(ss))

RECURSIVE JoinWith(_, _)
JoinWith(ss, sep) ==
  IF ss = <<>> THEN <<>>
  ELSE IF Len(ss) = 1 THEN Head(ss)
  ELSE Head(ss) \o sep \o JoinWith(Tail(ss), sep)

\* All orders in which a Go map with key set K may be iterated.
Perms(K) ==
  { p \in [1..Cardinality(K) -> K] : \A i, j \in 1..Cardinality(K) : p[i] = p[j] => i = j }

(***************************************************************************)
(* Character-level text.                                                    *)
(***************************************************************************)
Digits == <<"0", "1", "2", "3", "4", "5", "6", "7", "8", "9">>

IsDigit(c) == \E i \in 1..10 : Digits[i] = c

DigitVal(c) == (CHOOSE i \in 1..10 : Digits[i] = c) - 1

RECURSIVE DigitsVal(_)
DigitsVal(s) == IF s = <<>> THEN 0 ELSE DigitsVal(SubSeq(s, 1, Len(s) - 1)) * 10 + DigitVal(s[Len(s)])

RECURSIVE Itoa(_)
Itoa(n) == IF n < 10 THEN <<Digits[n + 1]>> ELSE Itoa(n \div 10) \o <<Digits[(n % 10) + 1]>>

\* strconv.Atoi: an optional sign followed by one or more decimal digits.
AtoiOk(s) ==
  LET body == IF s # <<>> /\ s[1] \in {"+", "-"} THEN Tail(s) ELSE s
  IN  body # <<>> /\ \A i \in 1..Len(body) : IsDigit(body[i])

Atoi(s) ==
  LET neg  == s # <<>> /\ s[1] = "-"
      body == IF s # <<>> /\ s[1] \in {"+", "-"} THEN Tail(s) ELSE s
  IN  IF neg THEN 0 - DigitsVal(body) ELSE DigitsVal(body)

\* fmt.Sprintf("%d", uint64(n)): a negative int wraps to 2^64 + n, whose
\* decimal text is 18446744073709551616 + n (for -616 <= n < 0 only the last
\* three digits change).
Uint64Text(n) ==
  IF n >= 0 THEN Itoa(n)
  ELSE <<"1","8","4","4","6","7","4","4","0","7","3","7","0","9","5","5","1">> \o Itoa(616 + n)

(***************************************************************************)
(* Names the program gives a meaning to.                                    *)
(***************************************************************************)
KeyLimit == <<"_","_","l","i","m","i","t","_","_">>
KeyOffset == <<"_","_","o","f","f","s","e","t","_","_">>
KeyOrderBy == <<"_","_","o","r","d","e","r","_","b","y","_","_">>
KeyId == <<"i","d">>
KeySql == <<"s","q","l">>

\* The Go nil interface value, as it appears among bound arguments and data.
Nil == <<"<nil>">>

(***************************************************************************)
(* Configuration (type Config).  Url is the prefix as the list of its        *)
(* "/"-separated segments after the leading "/" ("/" is the one empty        *)
(* segment, "/api/" is "api" followed by the empty segment).                 *)
(***************************************************************************)
Dbtypes == {"mysql", "postgres", "sqlite3"}

\* config.Schema is left empty where the server runs: no handler reads it
Configs == [Dbtype : Dbtypes, AllowRaw : BOOLEAN, Url : {<< <<>> >>}, Schema : {<<>>}]

\* Config.IsBaseUrl: url == c.Url || url+"/" == c.Url
IsBaseUrl(c, url) == url = c.Url \/ url \o << <<>> >> = c.Url

SchemaPublic == <<"p","u","b","l","i","c">>

\* Config.GetTableName: fmt.Sprintf("%s.%s", c.Schema, tableName) for postgres
\* with a schema that is neither empty nor public
GetTableName(c, tableName) ==
  IF c.Dbtype = "postgres" /\ c.Schema # <<>> /\ c.Schema # SchemaPublic
    THEN c.Schema \o <<".">> \o tableName
  ELSE tableName

(***************************************************************************)
(* The database behind the driver: one table, TableT(id, key), both columns  *)
(* NOT NULL; its rows in storage order.                                      *)
(***************************************************************************)
TableT == <<"t">>
ColKey == <<"k","e","y">>
Columns == {KeyId, ColKey}
Values == {<<"1">>, <<"2">>}
Rows == [Columns -> Values]

RECURSIVE SeqsUpTo(_, _)
SeqsUpTo(S, n) ==
  IF n = 0 THEN {<<>>}
  ELSE LET shorter == SeqsUpTo(S, n - 1)
       IN  shorter \cup { Append(q, x) : q \in { t \in shorter : Len(t) = n - 1 }, x \in S }

Databases == SeqsUpTo(Rows, MaxRows)

(***************************************************************************)
(* parseRequest.  A request path is the list of "/"-separated segments      *)
(* after the leading "/".                                                   *)
(***************************************************************************)
HasPrefix(path, url) ==
  /\ Len(path) >= Len(url)
  /\ \A i \in 1..(Len(url) - 1) : path[i] = url[i]

\* strings.Split(strings.TrimPrefix(r.URL.Path, config.Url), "/")
SplitTrimPrefix(path, url) ==
  IF HasPrefix(path, url) THEN SubSeq(path, Len(url), Len(path))
  ELSE << <<>> >> \o path

parseRequest(c, r) ==
  LET paths == SplitTrimPrefix(r.path, c.Url)
  IN  [table |-> paths[1],
       args  |-> r.query,
       id    |-> IF Len(paths) > 1 THEN paths[2] ELSE <<>>]

(***************************************************************************)
(* squirrel statement builders.  A builder value records what the builder   *)
(* calls accumulated; ToSql renders it.                                     *)
(*   where   : the WhereParts, each squirrel.Eq with one key                *)
(*   limit, offset : the decimal text squirrel keeps (<<>> when unset)      *)
(*   orderBy : the OrderByParts                                             *)
(*   set     : the SetClauses of an UPDATE, columns/values of an INSERT     *)
(***************************************************************************)
\* squirrel.Eq{key: v} with a scalar v
EqScalar(key, v) == [key |-> key, vals |-> <<v>>, list |-> FALSE]

\* squirrel.Eq{key: vals} with a []string
EqList(key, vals) == [key |-> key, vals |-> vals, list |-> TRUE]

NewBuilder(kind, table) ==
  [kind |-> kind, table |-> table, where |-> <<>>, limit |-> <<>>, offset |-> <<>>,
   orderBy |-> <<>>, set |-> <<>>]

\* WhereId without the condition on the row id
WhereIdDropped(b, id) == b

WhereId(b, id) == IF id # <<>> THEN [b EXCEPT !.where = Append(@, EqScalar(KeyId, id))] ELSE b

\* SelectArg with the error of strconv.Atoi ignored: the limit is then 0
SelectArgAtoiUnchecked(b, key, val) ==
  IF key = KeyLimit
    THEN [b EXCEPT !.limit = IF AtoiOk(val[1]) THEN Uint64Text(Atoi(val[1])) ELSE <<"0">>]
  ELSE IF key = KeyOffset
    THEN IF AtoiOk(val[1]) THEN [b EXCEPT !.offset = Uint64Text(Atoi(val[1]))] ELSE b
  ELSE IF key = KeyOrderBy
    THEN [b EXCEPT !.orderBy = @ \o val]
  ELSE [b EXCEPT !.where = Append(@, EqList(key, val))]

\* One iteration of the "for key, val := range args" loop of buildSelectQuery.
SelectArg(b, key, val) ==
  IF key = KeyLimit
    THEN IF AtoiOk(val[1]) THEN [b EXCEPT !.limit = Uint64Text(Atoi(val[1]))] ELSE b
  ELSE IF key = KeyOffset
    THEN IF AtoiOk(val[1]) THEN [b EXCEPT !.offset = Uint64Text(Atoi(val[1]))] ELSE b
  ELSE IF key = KeyOrderBy
    THEN [b EXCEPT !.orderBy = @ \o val]
  ELSE [b EXCEPT !.where = Append(@, EqList(key, val))]

\* One iteration of the loop of buildUpdateQuery and buildDeleteQuery.
WriteArg(b, key, val) ==
  IF key = KeyLimit
    THEN IF AtoiOk(val[1]) THEN [b EXCEPT !.limit = Uint64Text(Atoi(val[1]))] ELSE b
  ELSE [b EXCEPT !.where = Append(@, EqList(key, val))]

RECURSIVE SelectArgs(_, _, _)
SelectArgs(b, args, order) ==
  IF order = <<>> THEN b
  ELSE SelectArgs(SelectArg(b, Head(order), args[Head(order)]), args, Tail(order))

RECURSIVE WriteArgs(_, _, _)
WriteArgs(b, args, order) ==
  IF order = <<>> THEN b
  ELSE WriteArgs(WriteArg(b, Head(order), args[Head(order)]), args, Tail(order))

\* The backquote character (the lexer has no literal for it) and the double quote.
BackQuote == "<backquote>"
DoubleQuote == "\""

\* fmt.Sprintf for the column: backquotes around %s for mysql, "\"%s\"" otherwise
QuoteColumn(c, key) ==
  IF c.Dbtype = "mysql" THEN <<BackQuote>> \o key \o <<BackQuote>>
  ELSE <<DoubleQuote>> \o key \o <<DoubleQuote>>

RECURSIVE SetClauses(_, _, _)
SetClauses(c, values, order) ==
  IF order = <<>> THEN <<>>
  ELSE <<[column |-> QuoteColumn(c, Head(order)), value |-> values[Head(order)]]>>
       \o SetClauses(c, values, Tail(order))

\* argOrder, valOrder: the order in which the range loop visits the map's keys
buildSelect(c, r, argOrder) ==
  LET p == parseRequest(c, r)
  IN  SelectArgs(WhereId(NewBuilder("select", p.table), p.id), p.args, argOrder)

buildUpdate(c, r, values, valOrder, argOrder) ==
  LET p == parseRequest(c, r)
      b == [NewBuilder("update", p.table) EXCEPT !.set = SetClauses(c, values, valOrder)]
  IN  WriteArgs(WhereId(b, p.id), p.args, argOrder)

buildDelete(c, r, argOrder) ==
  LET p == parseRequest(c, r)
  IN  WriteArgs(WhereId(NewBuilder("delete", p.table), p.id), p.args, argOrder)

\* createSingle: sq.Insert(table).Columns(columns...).Values(values...)
buildInsert(c, table, item, itemOrder) ==
  [NewBuilder("insert", table) EXCEPT !.set = SetClauses(c, item, itemOrder)]

(***************************************************************************)
(* ToSql: the SQL text (the fragments squirrel writes, client text one      *)
(* character per fragment) and the bound arguments.                         *)
(***************************************************************************)
Placeholders(n) == JoinWith([i \in 1..n |-> <<"?">>], <<",">>)

\* Eq.ToSql writing a scalar value into the text instead of binding it
EqSqlInline(part) ==
  IF ~part.list THEN part.key \o <<" = ", "'">> \o part.vals[1] \o <<"'">>
  ELSE IF Len(part.vals) = 0 THEN <<"(1=0)">>
  ELSE part.key \o <<" IN (">> \o Placeholders(Len(part.vals)) \o <<")">>

\* squirrel.Eq.ToSql for a one-key Eq
EqSql(part) ==
  IF ~part.list THEN part.key \o <<" = ", "?">>
  ELSE IF Len(part.vals) = 0 THEN <<"(1=0)">>
  ELSE part.key \o <<" IN (">> \o Placeholders(Len(part.vals)) \o <<")">>

WhereSql(b) ==
  IF b.where = <<>> THEN <<>>
  ELSE <<" WHERE ">> \o JoinWith([i \in 1..Len(b.where) |-> EqSql(b.where[i])], <<" AND ">>)

WhereArgs(b) == Concat([i \in 1..Len(b.where) |-> b.where[i].vals])

OrderBySql(b) ==
  IF b.orderBy = <<>> THEN <<>> ELSE <<" ORDER BY ">> \o JoinWith(b.orderBy, <<", ">>)

LimitSql(b) == IF b.limit = <<>> THEN <<>> ELSE <<" LIMIT ">> \o b.limit

OffsetSql(b) == IF b.offset = <<>> THEN <<>> ELSE <<" OFFSET ">> \o b.offset

SetSql(b) == JoinWith([i \in 1..Len(b.set) |-> b.set[i].column \o <<" = ", "?">>], <<", ">>)

SetArgs(b) == [i \in 1..Len(b.set) |-> b.set[i].value]

InsertColumnsSql(b) ==
  IF b.set = <<>> THEN <<>>
  ELSE <<"(">> \o JoinWith([i \in 1..Len(b.set) |-> b.set[i].column], <<",">>) \o <<") ">>

\* The error ToSql returns, "" when it returns none.
ToSqlErr(b) ==
  IF b.kind = "delete" /\ b.table = <<>> THEN "delete statements must specify a From table"
  ELSE IF b.kind = "update" /\ b.table = <<>> THEN "update statements must specify a table"
  ELSE IF b.kind = "update" /\ b.set = <<>>
    THEN "update statements must have at least one Set clause"
  ELSE IF b.kind = "insert" /\ b.table = <<>> THEN "insert statements must specify a table"
  ELSE ""

\* The text before placeholder replacement.
RawSql(b) ==
  IF b.kind = "select"
    THEN <<"SELECT ", "*", " FROM ">> \o b.table \o WhereSql(b) \o OrderBySql(b)
         \o LimitSql(b) \o OffsetSql(b)
  ELSE IF b.kind = "update"
    THEN <<"UPDATE ">> \o b.table \o <<" SET ">> \o SetSql(b) \o WhereSql(b) \o LimitSql(b)
  ELSE IF b.kind = "delete"
    THEN <<"DELETE FROM ">> \o b.table \o WhereSql(b) \o LimitSql(b)
  ELSE <<"INSERT ", "INTO ">> \o b.table \o <<" ">> \o InsertColumnsSql(b)
       \o <<"VALUES ", "(">> \o Placeholders(Len(b.set)) \o <<")">>

\* squirrel.Dollar.ReplacePlaceholders: every "?" of the text becomes $n, "??" a "?".
RECURSIVE DollarFrom(_, _)
DollarFrom(sql, n) ==
  IF sql = <<>> THEN <<>>
  ELSE IF Head(sql) # "?" THEN <<Head(sql)>> \o DollarFrom(Tail(sql), n)
  ELSE IF Len(sql) > 1 /\ sql[2] = "?" THEN <<"?">> \o DollarFrom(Tail(Tail(sql)), n)
  ELSE <<"$" \o ToString(n)>> \o DollarFrom(Tail(sql), n + 1)

\* drivers.go: squirrel.Dollar for postgres, squirrel.Question for mysql and sqlite3
ReplacePlaceholders(c, sql) == IF c.Dbtype = "postgres" THEN DollarFrom(sql, 1) ELSE sql

ToSql(c, b) ==
  IF ToSqlErr(b) # "" THEN [err |-> ToSqlErr(b), sql |-> <<>>, args |-> <<>>]
  ELSE [err  |-> "",
        sql  |-> ReplacePlaceholders(c, RawSql(b)),
        args |-> IF b.kind \in {"update", "insert"} THEN SetArgs(b) \o WhereArgs(b)
                 ELSE WhereArgs(b)]

(***************************************************************************)
(* The database driver (db.Query, db.Exec): what the engine does with the   *)
(* statement the builder rendered.  The engine is given the statement in    *)
(* the builder's structure; a name it cannot resolve is an error.           *)
(***************************************************************************)
Take(q, n) == SubSeq(q, 1, IF n < Len(q) THEN n ELSE Len(q))

Drop(q, n) == SubSeq(q, (IF n < Len(q) THEN n ELSE Len(q)) + 1, Len(q))

\* A LIMIT/OFFSET text of more than nine digits exceeds every table of the model.
TakeText(q, text) == IF Len(text) > 9 THEN q ELSE Take(q, DigitsVal(text))

DropText(q, text) == IF Len(text) > 9 THEN <<>> ELSE Drop(q, DigitsVal(text))

DescSuffix == <<" ","D","E","S","C">>

OrderTokOk(tok) == \E col \in Columns : tok = col \/ tok = col \o DescSuffix

OrderTokCol(tok) == CHOOSE col \in Columns : tok = col \/ tok = col \o DescSuffix

OrderTokDesc(tok) == tok \notin Columns

\* r1 sorts strictly before r2 under the ORDER BY terms
RECURSIVE RowBefore(_, _, _)
RowBefore(r1, r2, toks) ==
  IF toks = <<>> THEN FALSE
  ELSE LET col == OrderTokCol(Head(toks))
           a   == DigitsVal(r1[col])
           b   == DigitsVal(r2[col])
       IN  IF a = b THEN RowBefore(r1, r2, Tail(toks))
           ELSE IF OrderTokDesc(Head(toks)) THEN a > b ELSE a < b

RECURSIVE InsertRow(_, _, _)
InsertRow(sorted, row, toks) ==
  IF sorted = <<>> THEN <<row>>
  ELSE IF RowBefore(row, Head(sorted), toks) THEN <<row>> \o sorted
  ELSE <<Head(sorted)>> \o InsertRow(Tail(sorted), row, toks)

RECURSIVE SortRows(_, _)
SortRows(rows, toks) ==
  IF rows = <<>> THEN <<>>
  ELSE InsertRow(SortRows(SubSeq(rows, 1, Len(rows) - 1), toks), rows[Len(rows)], toks)

RowMatches(row, b) ==
  \A i \in 1..Len(b.where) : row[b.where[i].key] \in Range(b.where[i].vals)

\* The positions of the rows the WHERE clause selects, in storage order.
RECURSIVE MatchingFrom(_, _, _)
MatchingFrom(db, b, i) ==
  IF i > Len(db) THEN <<>>
  ELSE (IF RowMatches(db[i], b) THEN <<i>> ELSE <<>>) \o MatchingFrom(db, b, i + 1)

UnquoteColumn(c, col) ==
  LET q == IF c.Dbtype = "mysql" THEN BackQuote ELSE DoubleQuote
  IN  IF Len(col) >= 2 /\ col[1] = q /\ col[Len(col)] = q THEN SubSeq(col, 2, Len(col) - 1)
      ELSE col

SetColumns(c, b) == { UnquoteColumn(c, b.set[i].column) : i \in 1..Len(b.set) }

SetValue(c, b, col) ==
  LET i == CHOOSE j \in 1..Len(b.set) : UnquoteColumn(c, b.set[j].column) = col
  IN  b.set[i].value

\* The column names the dialect reads as a keyword where they stand unquoted:
\* KEY in MySQL.
ReservedWords(c) == IF c.Dbtype = "mysql" THEN {ColKey} ELSE {}

\* The error the engine answers the statement with, "" when it runs.
StatementErr(c, b) ==
  IF b.table # TableT THEN "no such table"
  ELSE IF \E i \in 1..Len(b.where) : b.where[i].key \notin Columns THEN "no such column"
  ELSE IF \E i \in 1..Len(b.where) : b.where[i].key \in ReservedWords(c) THEN "syntax error"
  ELSE IF \E i \in 1..Len(b.orderBy) : ~OrderTokOk(b.orderBy[i]) THEN "syntax error"
  ELSE IF \E i \in 1..Len(b.orderBy) : OrderTokCol(b.orderBy[i]) \in ReservedWords(c)
    THEN "syntax error"
  ELSE IF b.offset # <<>> /\ b.limit = <<>> /\ c.Dbtype # "postgres" THEN "syntax error"
  ELSE IF b.kind \in {"update", "delete"} /\ b.limit # <<>> /\ c.Dbtype # "mysql"
    THEN "syntax error"
  ELSE IF b.kind \in {"update", "insert"} /\ ~(SetColumns(c, b) \subseteq Columns)
    THEN "no such column"
  ELSE IF b.kind = "insert" /\ SetColumns(c, b) # Columns THEN "NOT NULL constraint failed"
  ELSE IF b.kind \in {"update", "insert"} /\ \E i \in 1..Len(b.set) : b.set[i].value \notin Values
    THEN "NOT NULL constraint failed"
  ELSE ""

\* The rows a SELECT returns.
SelectRows(db, b) ==
  LET hit    == SelectSeq(db, LAMBDA row : RowMatches(row, b))
      sorted == IF b.orderBy = <<>> THEN hit ELSE SortRows(hit, b.orderBy)
      skipped == IF b.offset = <<>> THEN sorted ELSE DropText(sorted, b.offset)
  IN  IF b.limit = <<>> THEN skipped ELSE TakeText(skipped, b.limit)

\* The positions an UPDATE or DELETE acts on.
Targets(db, b) ==
  LET hit == MatchingFrom(db, b, 1)
  IN  Range(IF b.limit = <<>> THEN hit ELSE TakeText(hit, b.limit))

UpdatedRow(c, b, row) ==
  [col \in Columns |-> IF col \in SetColumns(c, b) THEN SetValue(c, b, col) ELSE row[col]]

RECURSIVE RemoveAt(_, _, _)
RemoveAt(db, T, i) ==
  IF i > Len(db) THEN <<>>
  ELSE (IF i \in T THEN <<>> ELSE <<db[i]>>) \o RemoveAt(db, T, i + 1)

\* The table after the statement, and the count the engine reports
\* (mysql counts the rows an UPDATE changed, the others the rows it matched).
ExecDb(c, db, b) ==
  LET T == Targets(db, b)
  IN  IF b.kind = "delete" THEN RemoveAt(db, T, 1)
      ELSE IF b.kind = "update"
        THEN [i \in 1..Len(db) |-> IF i \in T THEN UpdatedRow(c, b, db[i]) ELSE db[i]]
      ELSE Append(db, [col \in Columns |-> SetValue(c, b, col)])

ExecAffected(c, db, b) ==
  LET T == Targets(db, b)
  IN  IF b.kind = "insert" THEN 1
      ELSE IF b.kind = "update" /\ c.Dbtype = "mysql"
        THEN Cardinality({ i \in T : UpdatedRow(c, b, db[i]) # db[i] })
      ELSE Cardinality(T)

(***************************************************************************)
(* strings.Split, strings.ToUpper, strings.TrimSpace on character text.     *)
(***************************************************************************)
LowerCase == <<"a","b","c","d","e","f","g","h","i","j","k","l","m",
               "n","o","p","q","r","s","t","u","v","w","x","y","z">>
UpperCase == <<"A","B","C","D","E","F","G","H","I","J","K","L","M",
               "N","O","P","Q","R","S","T","U","V","W","X","Y","Z">>

\* unicode.IsSpace for the characters of the model
WhiteSpace == {" ", "\t", "\n", "\r"}

UpperChar(ch) ==
  IF \E i \in 1..26 : LowerCase[i] = ch
    THEN UpperCase[CHOOSE i \in 1..26 : LowerCase[i] = ch]
  ELSE ch

ToUpper(str) == [i \in 1..Len(str) |-> UpperChar(str[i])]

RECURSIVE TrimLeft(_)
TrimLeft(str) ==
  IF str # <<>> /\ Head(str) \in WhiteSpace THEN TrimLeft(Tail(str)) ELSE str

RECURSIVE TrimRight(_)
TrimRight(str) ==
  IF str # <<>> /\ str[Len(str)] \in WhiteSpace THEN TrimRight(SubSeq(str, 1, Len(str) - 1))
  ELSE str

\* the text as it is, nothing trimmed
TrimSpaceSkipped(str) == str

TrimSpace(str) == TrimRight(TrimLeft(str))

\* strings.Split(str, sep)[0] for a one-character separator
RECURSIVE SplitFirst(_, _)
SplitFirst(str, sep) ==
  IF str = <<>> \/ Head(str) = sep THEN <<>>
  ELSE <<Head(str)>> \o SplitFirst(Tail(str), sep)

(***************************************************************************)
(* detectQueryType                                                          *)
(***************************************************************************)
ReadWords == {<<"S","E","L","E","C","T">>,
              <<"S","H","O","W">>,
              <<"D","E","S","C","R","I","B","E">>,
              <<"E","X","P","L","A","I","N">>,
              <<"D","E","S","C">>,
              <<"P","R","A","G","M","A">>}

WriteWords == {<<"I","N","S","E","R","T">>,
               <<"U","P","D","A","T","E">>,
               <<"D","E","L","E","T","E">>,
               <<"C","R","E","A","T","E">>,
               <<"D","R","O","P">>,
               <<"A","L","T","E","R">>}

detectQueryType(query) ==
  LET firstWord == SplitFirst(query, " ")
      action    == TrimSpace(ToUpper(firstWord))
  IN  IF action \in ReadWords THEN "read"
      ELSE IF action \in WriteWords THEN "write"
      ELSE "unknown"

(***************************************************************************)
(* What the engine does with a raw statement: it reads the statement as     *)
(* the upper-cased words between white space.  The model's engine knows     *)
(* SELECT * FROM t and DELETE FROM t; any other text is an error.           *)
(***************************************************************************)
RECURSIVE SqlWords(_)
SqlWords(str) ==
  LET rest == TrimLeft(str)
      word == IF rest = <<>> THEN <<>>
              ELSE SubSeq(rest, 1, CHOOSE n \in 1..Len(rest) :
                     /\ \A i \in 1..n : rest[i] \notin WhiteSpace
                     /\ (n = Len(rest) \/ rest[n + 1] \in WhiteSpace))
  IN  IF rest = <<>> THEN <<>>
      ELSE <<ToUpper(word)>> \o SqlWords(SubSeq(rest, Len(word) + 1, Len(rest)))

SelectAllWords == <<<<"S","E","L","E","C","T">>, <<"*">>, <<"F","R","O","M">>, ToUpper(TableT)>>

DeleteAllWords == <<<<"D","E","L","E","T","E">>, <<"F","R","O","M">>, ToUpper(TableT)>>

RawQueryErr(sql) == IF SqlWords(sql) = SelectAllWords THEN "" ELSE "syntax error"

RawExecErr(sql) == IF SqlWords(sql) = DeleteAllWords THEN "" ELSE "syntax error"

(***************************************************************************)
(* Errors and results of the handlers.                                      *)
(***************************************************************************)
NoErr == [code |-> 0, msg |-> ""]

NewError(msg, code) == [code |-> code, msg |-> msg]

BadRequest(msg) == NewError(msg, StatusBadRequest)

\* interface{} data: nil, a []map[string]interface{} (nil when the query
\* produced no row), or an ExecResult
\* isnil: the value is nil or a nil slice (reflect's rv.IsNil())
NilData == [kind |-> "nil", rows |-> <<>>, affected |-> 0, isnil |-> TRUE]

\* tableData: a slice that stays nil until a row is appended to it
RowsData(rows) == [kind |-> "rows", rows |-> rows, affected |-> 0, isnil |-> rows = <<>>]

ExecResult(n) == [kind |-> "exec", rows |-> <<>>, affected |-> n, isnil |-> FALSE]

\* var EmptyArray = []map[string]string{}
EmptyArray == [kind |-> "rows", rows |-> <<>>, affected |-> 0, isnil |-> FALSE]

\* A statement handed to the driver: its text, its arguments, and what the
\* engine makes of it.
Stmt(q, b) == [sql |-> q.sql, args |-> q.args, plan |-> b]

RawStmt(text) == [sql |-> text, args |-> <<>>, plan |-> [kind |-> "raw", text |-> text]]

\* What a handler returns, the table it leaves and the statements it sent.
Out(data, err, db, stmts) == [data |-> data, err |-> err, db |-> db, stmts |-> stmts]

\* The driver's conduct during one request: "ok", or "rafail" when the
\* Result of an Exec that ran answers RowsAffected with an error.
DriverModes == {"ok", "rafail"}

\* db.Query: the error it returns, "" for none
QueryErr(c, st) ==
  IF st.plan.kind = "raw" THEN RawQueryErr(st.sql) ELSE StatementErr(c, st.plan)

\* db.Exec: the error it returns, "" for none
ExecErr(c, st) ==
  IF st.plan.kind = "raw" THEN RawExecErr(st.sql) ELSE StatementErr(c, st.plan)

(***************************************************************************)
(* readQuery, read                                                          *)
(***************************************************************************)
\* What the driver does while readQuery reads the rows of a query that ran:
\* nothing ("none"); rows.Columns fails ("columns"); rows.Scan fails on the
\* row after the first `at` ("scan"); rows.Next ends the loop after `at` rows
\* and rows.Err reports why ("next").
Fault(in, at) == [in |-> in, at |-> at]

NoFault == Fault("none", 0)

\* The rows the driver has for the query, in its order.
DriverRows(db, st) == IF st.plan.kind = "raw" THEN db ELSE SelectRows(db, st.plan)

\* The loop keeping the rows read so far when Scan or Next fails
RECURSIVE ScanRowsKept(_, _, _, _)
ScanRowsKept(rows, i, tableData, fault) ==
  IF fault.in = "next" /\ i > fault.at THEN [rows |-> tableData, err |-> "rows.Err"]
  ELSE IF i > Len(rows) THEN [rows |-> tableData, err |-> ""]
  ELSE IF fault.in = "scan" /\ i = fault.at + 1 THEN [rows |-> tableData, err |-> "rows.Scan"]
  ELSE ScanRowsKept(rows, i + 1, Append(tableData, rows[i]), fault)

\* for rows.Next() { rows.Scan; tableData = append(tableData, rowData) }; rows.Err():
\* the loop from row i on, tableData being what was appended before
RECURSIVE ScanRows(_, _, _, _)
ScanRows(rows, i, tableData, fault) ==
  IF fault.in = "next" /\ i > fault.at THEN [rows |-> <<>>, err |-> "rows.Err"]
  ELSE IF i > Len(rows) THEN [rows |-> tableData, err |-> ""]
  ELSE IF fault.in = "scan" /\ i = fault.at + 1 THEN [rows |-> <<>>, err |-> "rows.Scan"]
  ELSE ScanRows(rows, i + 1, Append(tableData, rows[i]), fault)

readQuery(c, db, st, fault) ==
  LET err == QueryErr(c, st)
  IN  IF err # "" THEN [rows |-> <<>>, err |-> err]
      ELSE IF fault.in = "columns" THEN [rows |-> <<>>, err |-> "rows.Columns"]
      ELSE ScanRows(DriverRows(db, st), 1, <<>>, fault)

read(c, db, r, argOrder, fault) ==
  LET b  == buildSelect(c, r, argOrder)
      q  == ToSql(c, b)
      st == Stmt(q, b)
      res == readQuery(c, db, st, fault)
  IN  IF q.err # "" THEN Out(NilData, BadRequest(q.err), db, <<>>)
      ELSE IF res.err # "" THEN Out(NilData, BadRequest(res.err), db, <<st>>)
      ELSE Out(RowsData(res.rows), NoErr, db, <<st>>)

(***************************************************************************)
(* db.Exec and the handlers that write                                      *)
(***************************************************************************)
ExecTable(c, db, st) == IF st.plan.kind = "raw" THEN <<>> ELSE ExecDb(c, db, st.plan)

ExecCount(c, db, st) == IF st.plan.kind = "raw" THEN Len(db) ELSE ExecAffected(c, db, st.plan)

\* execQuery returning no data on success, as the earliest execQuery did
execQueryNoContent(c, db, st, drv) ==
  IF ExecErr(c, st) # "" THEN Out(NilData, BadRequest(ExecErr(c, st)), db, <<st>>)
  ELSE IF drv = "rafail"
    THEN Out(NilData, BadRequest("RowsAffected failed"), ExecTable(c, db, st), <<st>>)
  ELSE Out(NilData, NoErr, ExecTable(c, db, st), <<st>>)

\* execQuery answering NotFound when no row was affected
execQueryNotFound(c, db, st, drv) ==
  IF ExecErr(c, st) # "" THEN Out(NilData, BadRequest(ExecErr(c, st)), db, <<st>>)
  ELSE IF drv = "rafail"
    THEN Out(NilData, BadRequest("RowsAffected failed"), ExecTable(c, db, st), <<st>>)
  ELSE IF ExecCount(c, db, st) = 0
    THEN Out(NilData, NewError("not found", StatusNotFound), ExecTable(c, db, st), <<st>>)
  ELSE Out(ExecResult(ExecCount(c, db, st)), NoErr, ExecTable(c, db, st), <<st>>)

\* execQuery: both the Exec error and the RowsAffected error are returned
execQuery(c, db, st, drv) ==
  IF ExecErr(c, st) # "" THEN Out(NilData, BadRequest(ExecErr(c, st)), db, <<st>>)
  ELSE IF drv = "rafail"
    THEN Out(NilData, BadRequest("RowsAffected failed"), ExecTable(c, db, st), <<st>>)
  ELSE Out(ExecResult(ExecCount(c, db, st)), NoErr, ExecTable(c, db, st), <<st>>)

\* res.RowsAffected() with its error dropped: the count is 0 when the call fails
RowsAffectedIgnoringErr(c, db, st, drv) == IF drv = "rafail" THEN 0 ELSE ExecCount(c, db, st)

\* createSingle; err is the error text, "" for none
createSingle(c, db, table, item, itemOrder, drv) ==
  LET b  == buildInsert(c, table, item, itemOrder)
      q  == ToSql(c, b)
      st == Stmt(q, b)
  IN  IF q.err # "" THEN Out(NilData, BadRequest(q.err), db, <<>>)
      ELSE IF ExecErr(c, st) # ""
        THEN Out(NilData, BadRequest(ExecErr(c, st)), db, <<st>>)
      ELSE Out(ExecResult(RowsAffectedIgnoringErr(c, db, st, drv)), NoErr,
               ExecTable(c, db, st), <<st>>)

\* json.Unmarshal(body, &data) with data an interface{}
UnmarshalAnyErr(body) ==
  IF body.kind \in {"invalid", "text", "none", "form"} THEN "invalid character" ELSE ""

\* json.Unmarshal(body, &data) with data a map or a struct: null leaves it empty
UnmarshalObjectErr(body) ==
  IF body.kind \in {"invalid", "text", "none", "form"} THEN "invalid character"
  ELSE IF body.kind \in {"array", "scalar"} THEN "json: cannot unmarshal"
  ELSE ""

create(c, db, r, itemOrder, drv) ==
  IF r.contentType # "application/json"
    THEN Out(NilData, BadRequest("invalid content type"), db, <<>>)
  ELSE IF UnmarshalAnyErr(r.body) # ""
    THEN Out(NilData, BadRequest(UnmarshalAnyErr(r.body)), db, <<>>)
  ELSE IF r.body.kind = "object"
    THEN createSingle(c, db, parseRequest(c, r).table, r.body.obj, itemOrder, drv)
  ELSE Out(NilData, BadRequest("invalid request"), db, <<>>)

\* update without the Content-Type test
updateAnyContentType(c, db, r, valOrder, argOrder, drv) ==
  LET values == IF r.body.kind = "object" THEN r.body.obj ELSE <<>>
      b  == buildUpdate(c, r, values, valOrder, argOrder)
      q  == ToSql(c, b)
  IN  IF UnmarshalObjectErr(r.body) # ""
        THEN Out(NilData, BadRequest(UnmarshalObjectErr(r.body)), db, <<>>)
      ELSE IF q.err # "" THEN Out(NilData, BadRequest(q.err), db, <<>>)
      ELSE execQuery(c, db, Stmt(q, b), drv)

update(c, db, r, valOrder, argOrder, drv) ==
  LET values == IF r.body.kind = "object" THEN r.body.obj ELSE <<>>
      b  == buildUpdate(c, r, values, valOrder, argOrder)
      q  == ToSql(c, b)
  IN  IF r.contentType # "application/json"
        THEN Out(NilData, BadRequest("invalid content type"), db, <<>>)
      ELSE IF UnmarshalObjectErr(r.body) # ""
        THEN Out(NilData, BadRequest(UnmarshalObjectErr(r.body)), db, <<>>)
      ELSE IF q.err # "" THEN Out(NilData, BadRequest(q.err), db, <<>>)
      ELSE execQuery(c, db, Stmt(q, b), drv)

del(c, db, r, argOrder, drv) ==
  LET b == buildDelete(c, r, argOrder)
      q == ToSql(c, b)
  IN  IF q.err # "" THEN Out(NilData, BadRequest(q.err), db, <<>>)
      ELSE execQuery(c, db, Stmt(q, b), drv)

(***************************************************************************)
(* raw                                                                      *)
(***************************************************************************)
\* query.SqlQuery as the content-type branches leave it
RawSqlQuery(r) ==
  IF r.contentType = "text/plain" THEN r.body.text
  ELSE IF /\ r.body.kind = (IF r.contentType = "application/json" THEN "object" ELSE "form")
          /\ KeySql \in DOMAIN r.body.obj
          /\ r.body.obj[KeySql] # Nil
    THEN r.body.obj[KeySql]
  ELSE <<>>

RawContentTypes == {"text/plain", "application/json", "multipart/form-data",
                    "application/x-www-form-urlencoded"}

raw(c, db, r, drv) ==
  LET sqlQuery  == TrimSpace(RawSqlQuery(r))
      queryType == detectQueryType(sqlQuery)
      st        == RawStmt(sqlQuery)
      res       == readQuery(c, db, st, NoFault)
  IN  IF r.contentType \notin RawContentTypes
        THEN Out(NilData, BadRequest("not supported content type"), db, <<>>)
      ELSE IF r.contentType = "application/json" /\ UnmarshalObjectErr(r.body) # ""
        THEN Out(NilData, BadRequest(UnmarshalObjectErr(r.body)), db, <<>>)
      ELSE IF sqlQuery = <<>> THEN Out(NilData, BadRequest("empty query"), db, <<>>)
      ELSE IF queryType = "read"
        THEN IF res.err # "" THEN Out(NilData, BadRequest(res.err), db, <<st>>)
             ELSE Out(RowsData(res.rows), NoErr, db, <<st>>)
      ELSE IF queryType = "write"
        THEN IF ExecErr(c, st) # ""
               THEN Out(NilData, BadRequest(ExecErr(c, st)), db, <<st>>)
             ELSE Out(ExecResult(RowsAffectedIgnoringErr(c, db, st, drv)), NoErr,
                      ExecTable(c, db, st), <<st>>)
      ELSE Out(NilData, BadRequest("unknown query type"), db, <<>>)

(***************************************************************************)
(* quoteMinimal, writeResponseCsv, writeResponse                            *)
(***************************************************************************)
\* strconv.Quote: the text between double quotes, with Go escapes
QuoteChar(ch) ==
  IF ch = "\"" THEN <<"\\", "\"">>
  ELSE IF ch = "\\" THEN <<"\\", "\\">>
  ELSE IF ch = "\n" THEN <<"\\", "n">>
  ELSE IF ch = "\t" THEN <<"\\", "t">>
  ELSE IF ch = "\r" THEN <<"\\", "r">>
  ELSE <<ch>>

Quote(field) == <<"\"">> \o Concat([i \in 1..Len(field) |-> QuoteChar(field[i])]) \o <<"\"">>

\* strings.ContainsAny(field, ",\"\n")
quoteMinimal(field) ==
  IF \E i \in 1..Len(field) : field[i] \in {",", "\"", "\n"} THEN Quote(field) ELSE field

\* fmt.Sprintf("%v", val), "null" for a nil value
ValStr(val) == IF val = Nil THEN <<"n","u","l","l">> ELSE val

CsvSeparator(acceptHeader) == IF acceptHeader = "text/tsv" THEN "\t" ELSE ","

\* The fields of one output line, as written between separators.
CsvFields(item, headers) == [i \in 1..Len(headers) |-> quoteMinimal(ValStr(item[headers[i]]))]

CsvLine(fields, sep) == JoinWith(fields, <<sep>>)

NoBody == [kind |-> "empty", msg |-> "", rows |-> <<>>, affected |-> 0, lines |-> <<>>]

\* writeResponseCsv; headers is the order in which the first row's keys are ranged over
writeResponseCsv(acceptHeader, data, err, headers) ==
  LET sep == CsvSeparator(acceptHeader)
      ctype == IF acceptHeader = "text/tsv" THEN "text/tsv" ELSE "text/csv"
  IN  IF err # NoErr
        THEN [status |-> err.code, returned |-> err.code, ctype |-> "text/plain",
              body |-> [NoBody EXCEPT !.kind = "text", !.msg = err.msg]]
      ELSE IF data.kind = "nil"
        THEN [status |-> StatusOK, returned |-> StatusOK, ctype |-> "", body |-> NoBody]
      ELSE IF data.kind = "exec"
        THEN [status |-> StatusOK, returned |-> StatusOK, ctype |-> ctype,
              body |-> [NoBody EXCEPT !.kind = "csv",
                          !.lines = << <<"rows_affected">>, Itoa(data.affected) >>]]
      ELSE IF data.rows = <<>>
        THEN [status |-> StatusOK, returned |-> StatusOK, ctype |-> ctype, body |-> NoBody]
      ELSE [status |-> StatusOK, returned |-> StatusOK, ctype |-> ctype,
            body |-> [NoBody EXCEPT !.kind = "csv",
                        !.lines = <<CsvLine(headers, sep)>> \o
                                  [i \in 1..Len(data.rows) |->
                                     CsvLine(CsvFields(data.rows[i], headers), sep)]]]

\* json.NewEncoder(w).Encode(data): a struct is an object, nil and a nil
\* slice are null, any other slice is an array
JsonEncode(data) ==
  IF data.kind = "exec" THEN [NoBody EXCEPT !.kind = "object", !.affected = data.affected]
  ELSE IF data.isnil THEN [NoBody EXCEPT !.kind = "null"]
  ELSE [NoBody EXCEPT !.kind = "array", !.rows = data.rows]

\* writeResponse encoding data as the handler returned it
writeResponseAsReturned(r, data, err, headers) ==
  IF r.accept \in {"text/csv", "text/tsv"} THEN writeResponseCsv(r.accept, data, err, headers)
  ELSE IF err # NoErr
    THEN [status |-> err.code, returned |-> err.code, ctype |-> "application/json",
          body |-> [NoBody EXCEPT !.kind = "error", !.msg = err.msg]]
  ELSE [status |-> StatusOK, returned |-> StatusOK, ctype |-> "application/json",
        body |-> JsonEncode(data)]

\* writeResponse: what is written (status, ctype, body) and the status it returns
writeResponse(r, data, err, headers) ==
  LET ensured == IF data.kind = "nil" \/ (data.kind # "exec" /\ data.isnil)
                   THEN EmptyArray ELSE data
  IN  IF r.accept \in {"text/csv", "text/tsv"}
        THEN writeResponseCsv(r.accept, data, err, headers)
      ELSE IF err # NoErr
        THEN [status |-> err.code, returned |-> err.code, ctype |-> "application/json",
              body |-> [NoBody EXCEPT !.kind = "error", !.msg = err.msg]]
      ELSE [status |-> StatusOK, returned |-> StatusOK, ctype |-> "application/json",
            body |-> JsonEncode(ensured)]

(***************************************************************************)
(* The requests of the model.                                               *)
(***************************************************************************)
\* A name with a character that needs quoting, as a table and as a column.
SpacedTable == <<"m"," ","t">>
SpacedColumn == <<"a"," ","b">>

TableNames == {TableT, SpacedTable}

BasePath == << <<>> >>

\* /t, /m t, /t/1, /t/2
TablePaths == { <<tb>> : tb \in TableNames } \cup { <<TableT, v>> : v \in Values }

\* //1: the table segment is empty
EmptyTablePath == << <<>>, <<"1">> >>

\* /t, /m t, /t/1
PutPaths == { <<tb>> : tb \in TableNames } \cup { <<TableT, <<"1">> >> }

IdDesc == KeyId \o DescSuffix

ControlKeys == {KeyLimit, KeyOffset, KeyOrderBy}

FilterKeys == {KeyId, ColKey, SpacedColumn}

QueryKeys == FilterKeys \cup ControlKeys

\* The value lists a key may carry in the query string.
QueryVals(key) ==
  IF key = KeyId THEN { <<v>> : v \in Values } \cup { << <<"1">>, <<"2">> >> }
  ELSE IF key = ColKey THEN { <<v>> : v \in Values }
  ELSE IF key = SpacedColumn THEN { << <<"1">> >> }
  ELSE IF key = KeyLimit THEN { << <<"0">> >>, << <<"1">> >>, << <<"x">> >>, << <<"-","1">> >> }
  ELSE IF key = KeyOffset THEN { << <<"1">> >> }
  ELSE { <<ColKey, IdDesc>> }

QueriesOver(K) ==
  { f \in [K -> UNION { QueryVals(k) : k \in K }] : \A k \in K : f[k] \in QueryVals(k) }

\* The query strings with at most n keys.
Queries(n) == UNION { QueriesOver(K) : K \in { S \in SUBSET QueryKeys : Cardinality(S) <= n } }

MaxKeys == 2

\* The query strings with no key or one.
OneKeyQueries == UNION { QueriesOver(K) : K \in {{}} \cup { {k} : k \in QueryKeys } }

\* The query strings the server is sent: at most one filter with at most one
\* control key, both filters, or __limit__ with __offset__.
ServedQueries ==
  UNION { QueriesOver(F \cup C) :
            F \in {{}} \cup { {k} : k \in FilterKeys },
            C \in {{}} \cup { {k} : k \in ControlKeys } }
  \cup QueriesOver({KeyId, ColKey})
  \cup QueriesOver({KeyLimit, KeyOffset})

\* A request body: its JSON kind ("object", "array", "scalar", "null",
\* "invalid"), a form ("form"), plain text ("text") or nothing ("none").
Body(kind, obj, text) == [kind |-> kind, obj |-> obj, text |-> text]

EmptyBody == Body("none", <<>>, <<>>)

\* The JSON objects put: {}, {"key": "1"}, {"key": null}, {"id": "2", "key": "2"}
PutItems ==
  {<<>>}
  \cup { [k \in {ColKey} |-> v] : v \in {<<"1">>, Nil} }
  \cup { [k \in Columns |-> <<"2">>] }

\* The JSON objects posted: those, {"key": "2"}, {"a b": "1"} and every {"id": v, "key": w}
Items ==
  PutItems
  \cup { [k \in {ColKey} |-> <<"2">>], [k \in {SpacedColumn} |-> <<"1">>] }
  \cup [Columns -> Values]

JsonBodies(items) ==
  { Body("object", item, <<>>) : item \in items }
  \cup { Body(kind, <<>>, <<>>) : kind \in {"array", "scalar", "null", "invalid"} }

\* The raw SQL texts posted to the base URL.
RawTexts == {<<>>,
             <<" ", " ">>,
             <<"s","e","l","e","c","t"," ","*"," ","f","r","o","m"," ","t">>,
             <<" "," ","S","E","L","E","C","T"," ","*"," ","F","R","O","M"," ","t","\n">>,
             <<"s","e","l","e","c","t","\n","*"," ","f","r","o","m"," ","t">>,
             <<"d","e","l","e","t","e"," ","f","r","o","m"," ","t">>,
             <<"D","E","L","E","T","E","\t","F","R","O","M"," ","t">>,
             <<"D","R","O","P"," ","T","A","B","L","E"," ","x">>,
             <<"F","O","O","B","A","R">>}

\* JSON bodies {"sql": text}, {}, null, an array, text that is not JSON
RawJsonBodies ==
  { Body("object", [k \in {KeySql} |-> t], <<>>) : t \in RawTexts }
  \cup { Body("object", <<>>, <<>>), Body("null", <<>>, <<>>), Body("array", <<>>, <<>>),
         Body("invalid", <<>>, <<>>) }

\* Forms with a field sql, and one without
RawFormBodies ==
  { Body("form", [k \in {KeySql} |-> t], <<>>) : t \in RawTexts } \cup { Body("form", <<>>, <<>>) }

Methods == {"GET", "POST", "PUT", "DELETE", "PATCH"}

Request(method, path, query, contentType, accept, body) ==
  [method |-> method, path |-> path, query |-> query, contentType |-> contentType,
   accept |-> accept, body |-> body]

\* GET and DELETE on a table: no body
ReadRequests ==
  { Request("GET", p, q, "", "", EmptyBody) : p \in TablePaths, q \in ServedQueries }
  \cup { Request("GET", p, <<>>, "", a, EmptyBody) :
           p \in TablePaths, a \in {"text/csv", "text/tsv"} }
  \cup { Request("GET", EmptyTablePath, <<>>, "", "", EmptyBody) }

DeleteRequests ==
  { Request("DELETE", p, q, "", "", EmptyBody) :
      p \in TablePaths, q \in OneKeyQueries }
  \cup { Request("DELETE", <<TableT>>, <<>>, "", "text/csv", EmptyBody) }
  \cup { Request("DELETE", EmptyTablePath, <<>>, "", "", EmptyBody) }

\* POST on a table: the code reads the table segment and the body only
CreateRequests ==
  { Request("POST", <<tb>>, <<>>, "application/json", a, b) :
      tb \in TableNames, a \in {"", "text/csv"}, b \in JsonBodies(Items) }
  \cup { Request("POST", <<tb>>, <<>>, "text/plain", "", Body("text", <<>>, <<"x">>)) :
           tb \in TableNames }
  \cup { Request("POST", p, <<>>, ct, "", Body("object", [k \in Columns |-> <<"2">>], <<>>)) :
           p \in {<<TableT>>, EmptyTablePath}, ct \in {"", "text/plain", "application/json"} }

UpdateRequests ==
  { Request("PUT", p, q, "application/json", "", b) :
      p \in PutPaths, q \in OneKeyQueries, b \in JsonBodies(PutItems) }
  \cup { Request("PUT", p, <<>>, "", "", EmptyBody) : p \in PutPaths }
  \cup { Request("PUT", p, <<>>, ct, "", Body("object", [k \in {ColKey} |-> <<"1">>], <<>>)) :
           p \in {<<TableT>>, EmptyTablePath}, ct \in {"", "text/plain", "application/json"} }

OtherRequests == { Request("PATCH", p, <<>>, "", a, EmptyBody) :
                     p \in TablePaths \cup {EmptyTablePath}, a \in {"", "text/csv"} }

\* Requests to the base URL.
RawRequests ==
  { Request("POST", BasePath, <<>>, "application/json", "", b) : b \in RawJsonBodies }
  \cup { Request("POST", BasePath, <<>>, "multipart/form-data", "", b) : b \in RawFormBodies }
  \cup { Request("POST", BasePath, <<>>, "text/plain", a, Body("text", <<>>, t)) :
           t \in RawTexts, a \in {"", "text/csv"} }
  \cup { Request("POST", BasePath, <<>>, "", "", EmptyBody) }

BaseRequests ==
  RawRequests \cup { Request(m, BasePath, <<>>, "", "", EmptyBody) : m \in Methods }

(***************************************************************************)
(* The server: HandleQuery serves one request at a time against the         *)
(* database; NextRequest is the handler returning.                          *)
(***************************************************************************)
VARIABLES
  config,     \* the Config the process started with
  db,         \* the rows of table t
  phase,      \* "idle": waiting for a request; "done": a request was handled
  req,        \* the request handled
  env,        \* what the driver did during the request
  handler,    \* the function HandleQuery routed the request to
  stmts,      \* the statements handed to the driver
  resp,       \* the response written
  logged,     \* the status codes given to logRequest
  arg,        \* the argument of a function applied on its own
  result,     \* what that function returned
  pc,         \* where each goroutine of the process stands
  totalWrites,\* the package variable totalWrites
  reg,        \* the value of totalWrites a handler loaded for totalWrites++
  server,     \* the http.Server: "listening", "shutting down" or "closed"
  sigs,       \* the channel sigs, of capacity 1
  done,       \* the channel done, of capacity 1
  exit,       \* the status the process exited with and the goroutine that ended it
  history     \* what happened since the latest ticks, kept for the properties

\* The variables of main and its goroutines; the request handling of Spec
\* and the functions applied on their own leave them as they start.
mainvars == <<pc, totalWrites, reg, server, sigs, done, exit, history>>

vars == <<config, db, phase, req, env, handler, stmts, resp, logged, arg, result, mainvars>>

\* The goroutines main starts, and the goroutines net/http runs HandleQuery on.
Handlers == {"h1", "h2"}

Goroutines == {"main", "signal", "autoBackup", "selfDbCheck", "selfHealthCheck"} \cup Handlers

NotExited == [status |-> -1, by |-> ""]

NoHistory ==
  [writesSince |-> FALSE, ticked |-> FALSE, hadWrites |-> FALSE, backup |-> FALSE,
   pendingRaw |-> FALSE, gets |-> <<>>]

\* The process as main leaves it when it reaches server.ListenAndServe().
MainStarted ==
  /\ pc = [g \in Goroutines |->
             CASE g = "main" -> "ListenAndServe"
               [] g = "signal" -> "sigs"
               [] g = "autoBackup" -> "ticker"
               [] g = "selfDbCheck" -> "ticker"
               [] g = "selfHealthCheck" -> "start"
               [] OTHER -> "idle"]
  /\ totalWrites = 0
  /\ reg = [h \in Handlers |-> 0]
  /\ server = "listening"
  /\ sigs = <<>>
  /\ done = <<>>
  /\ exit = NotExited
  /\ history = NoHistory

NoRequest == Request("", BasePath, <<>>, "", "", EmptyBody)

NoResponse == [status |-> 0, returned |-> 0, ctype |-> "", body |-> NoBody]

Env(drv, ping) == [drv |-> drv, ping |-> ping]

Init ==
  /\ config \in Configs
  /\ db \in Databases
  /\ phase = "idle"
  /\ req = NoRequest
  /\ env = Env("ok", TRUE)
  /\ handler = ""
  /\ stmts = <<>>
  /\ resp = NoResponse
  /\ logged = <<>>
  /\ arg = <<>>
  /\ result = ""
  /\ MainStarted

\* The Exec of the request ran: the one case in which RowsAffected is called.
ExecRan(c, out) ==
  /\ out.stmts # <<>>
  /\ out.stmts[1].plan.kind \in {"insert", "update", "delete", "raw"}
  /\ ExecErr(c, out.stmts[1]) = ""

\* The tail of HandleQuery: writeResponse, then logRequest with the status it returned.
Respond(r, name, drv, out, headers) ==
  LET written == writeResponse(r, out.data, out.err, headers)
  IN  /\ Len(out.db) <= MaxRows
      /\ drv = "rafail" => ExecRan(config, out)
      /\ req' = r
      /\ env' = Env(drv, TRUE)
      /\ handler' = name
      /\ db' = out.db
      /\ stmts' = out.stmts
      /\ resp' = written
      /\ logged' = <<written.returned>>
      /\ phase' = "done"
      /\ UNCHANGED <<config, arg, result, mainvars>>

ColumnOrders == Perms(Columns)

\* The driver reads the rows without fault here; SpecReadQuery applies its faults.
HandleRead ==
  /\ phase = "idle"
  /\ \E r \in ReadRequests :
       \E argOrder \in Perms(DOMAIN r.query), headers \in ColumnOrders :
         Respond(r, "read", "ok", read(config, db, r, argOrder, NoFault), headers)

HandleCreate ==
  /\ phase = "idle"
  /\ \E r \in CreateRequests, drv \in DriverModes :
       \E itemOrder \in Perms(DOMAIN r.body.obj) :
         Respond(r, "create", drv, create(config, db, r, itemOrder, drv), <<>>)

HandleUpdate ==
  /\ phase = "idle"
  /\ \E r \in UpdateRequests, drv \in DriverModes :
       \E valOrder \in Perms(DOMAIN r.body.obj), argOrder \in Perms(DOMAIN r.query) :
         Respond(r, "update", drv, update(config, db, r, valOrder, argOrder, drv), <<>>)

HandleDelete ==
  /\ phase = "idle"
  /\ \E r \in DeleteRequests, drv \in DriverModes :
       \E argOrder \in Perms(DOMAIN r.query) :
         Respond(r, "del", drv, del(config, db, r, argOrder, drv), <<>>)

\* default: MethodNotAllowed
HandleOther ==
  /\ phase = "idle"
  /\ \E r \in OtherRequests :
       Respond(r, "", "ok",
               Out(NilData, NewError("MethodNotAllowed", StatusMethodNotAllowed), db, <<>>),
               <<>>)

\* raw(r) for every POST on the base URL, whatever config.AllowRaw is
HandleRawUnguarded ==
  /\ phase = "idle"
  /\ \E r \in BaseRequests, drv \in DriverModes, headers \in ColumnOrders :
       /\ IsBaseUrl(config, r.path)
       /\ r.method = "POST"
       /\ Respond(r, "raw", drv, raw(config, db, r, drv), headers)

\* The base URL with raw queries allowed and a POST: raw(r)
HandleRaw ==
  /\ phase = "idle"
  /\ config.AllowRaw
  /\ \E r \in BaseRequests, drv \in DriverModes, headers \in ColumnOrders :
       /\ IsBaseUrl(config, r.path)
       /\ r.method = "POST"
       /\ Respond(r, "raw", drv, raw(config, db, r, drv), headers)

\* The base URL otherwise, answered BadRequest as by the earlier HandleQuery
HandleHealthRejected ==
  /\ phase = "idle"
  /\ \E r \in BaseRequests :
       /\ IsBaseUrl(config, r.path)
       /\ ~(config.AllowRaw /\ r.method = "POST")
       /\ Respond(r, "health", "ok",
                  Out(NilData, BadRequest("invalid raw query request"), db, <<>>), <<>>)

\* The base URL otherwise: db.Ping decides the status written, logRequest is
\* given StatusOK, and HandleQuery returns without writeResponse.
HandleHealth ==
  /\ phase = "idle"
  /\ \E r \in BaseRequests, ping \in BOOLEAN :
       /\ IsBaseUrl(config, r.path)
       /\ ~(config.AllowRaw /\ r.method = "POST")
       /\ req' = r
       /\ env' = Env("ok", ping)
       /\ handler' = "health"
       /\ resp' = [NoResponse EXCEPT
                     !.status = IF ping THEN StatusOK ELSE StatusInternalServerError]
       /\ logged' = <<StatusOK>>
       /\ stmts' = <<>>
       /\ phase' = "done"
       /\ UNCHANGED <<config, db, arg, result, mainvars>>

NextRequest ==
  /\ phase = "done"
  /\ phase' = "idle"
  /\ req' = NoRequest
  /\ env' = Env("ok", TRUE)
  /\ handler' = ""
  /\ stmts' = <<>>
  /\ resp' = NoResponse
  /\ logged' = <<>>
  /\ UNCHANGED <<config, db, arg, result, mainvars>>

Next ==
  \/ HandleRead
  \/ HandleCreate
  \/ HandleUpdate
  \/ HandleDelete
  \/ HandleOther
  \/ HandleRaw
  \/ HandleHealth
  \/ NextRequest

Spec == Init /\ [][Next]_vars

(***************************************************************************)
(* detectQueryType applied on its own to query texts: white space, a first *)
(* word, and what follows it.                                               *)
(***************************************************************************)
MaxPad == 2

PadChars == {" ", "\t", "\n"}

Pads == UNION { [1..n -> PadChars] : n \in 0..MaxPad }

FirstWords ==
  ReadWords \cup WriteWords
  \cup {<<"s","e","l","e","c","t">>, <<"S","e","l","e","c","t">>, <<"d","r","o","p">>,
        <<"F","O","O","B","A","R">>, <<"S","E","L","E","C","T","S">>}

Rests == {<<>>, <<" ","1">>, <<"\n","1">>, <<"\t","1">>, <<" ","T","A","B","L","E"," ","x">>}

QueryTexts == { p \o w \o r : p \in Pads, w \in FirstWords, r \in Rests }

FixedConfig == [Dbtype |-> "sqlite3", AllowRaw |-> TRUE, Url |-> << <<>> >>, Schema |-> <<>>]

\* The server at rest, for the specifications that apply one function.
ServerAtRest ==
  /\ config = FixedConfig
  /\ db = <<>>
  /\ phase = "idle"
  /\ req = NoRequest
  /\ env = Env("ok", TRUE)
  /\ handler = ""
  /\ stmts = <<>>
  /\ resp = NoResponse
  /\ logged = <<>>
  /\ MainStarted

InitDetect ==
  /\ ServerAtRest
  /\ arg \in QueryTexts
  /\ result = ""

DetectQueryType ==
  /\ phase = "idle"
  /\ result' = detectQueryType(arg)
  /\ handler' = "detectQueryType"
  /\ phase' = "done"
  /\ UNCHANGED <<config, db, req, env, stmts, resp, logged, arg, mainvars>>

NextDetect == DetectQueryType

SpecDetect == InitDetect /\ [][NextDetect]_vars

\* strings.Fields(str)[0]: the first run of characters that are not white space
RECURSIVE UntilSpace(_)
UntilSpace(str) ==
  IF str = <<>> \/ Head(str) \in WhiteSpace THEN <<>>
  ELSE <<Head(str)>> \o UntilSpace(Tail(str))

FirstToken(str) == UntilSpace(TrimLeft(str))

ClassOfToken(token) ==
  IF ToUpper(token) \in ReadWords THEN "read"
  ELSE IF ToUpper(token) \in WriteWords THEN "write"
  ELSE "unknown"

\* C3: detectQueryType answers with the class of the upper-cased first
\* white-space-delimited token of the query, whatever white space (spaces,
\* tabs, newlines) comes before or after that token.
C3_ClassOfFirstToken ==
  (phase = "done" /\ handler = "detectQueryType") => result = ClassOfToken(FirstToken(arg))

(***************************************************************************)
(* writeResponseCsv applied on its own to one result row whose values hold  *)
(* separators, quotes and newlines.                                         *)
(***************************************************************************)
MaxFieldLen == 2

FieldChars == {"a", ",", "\t", "\"", "\n"}

Fields == UNION { [1..n -> FieldChars] : n \in 0..MaxFieldLen }

CsvInputs == [accept : {"text/csv", "text/tsv"}, row : [Columns -> Fields]]

InitCsv ==
  /\ ServerAtRest
  /\ arg \in CsvInputs
  /\ result = <<>>

\* result keeps the order in which the range loop visited the row's keys
WriteResponseCsv ==
  /\ phase = "idle"
  /\ \E headers \in ColumnOrders :
       /\ resp' = writeResponseCsv(arg.accept, RowsData(<<arg.row>>), NoErr, headers)
       /\ result' = headers
  /\ handler' = "writeResponseCsv"
  /\ phase' = "done"
  /\ UNCHANGED <<config, db, req, env, stmts, logged, arg, mainvars>>

NextCsv == WriteResponseCsv

SpecCsv == InitCsv /\ [][NextCsv]_vars

\* The field holds the delimiter in use, a double quote or a newline.
NeedsQuotes(field, sep) == \E i \in 1..Len(field) : field[i] \in {sep, "\"", "\n"}

\* The field as the line must carry it: quoted when it needs quotes, else as it is.
DelimitedField(field, sep) == IF NeedsQuotes(field, sep) THEN Quote(field) ELSE field

\* C8: in text/csv and in text/tsv output, a value that contains the active
\* delimiter, a double quote or a newline is written quoted, and a value
\* that contains none of them is written as it is.
C8_QuotedIffDelimiterQuoteOrNewline ==
  (phase = "done" /\ handler = "writeResponseCsv") =>
    LET sep == IF arg.accept = "text/tsv" THEN "\t" ELSE ","
    IN  resp.body.lines[2] =
          JoinWith([i \in 1..Len(result) |-> DelimitedField(arg.row[result[i]], sep)], <<sep>>)

(***************************************************************************)
(* The statement builders applied on their own: buildSelectQuery,           *)
(* buildUpdateQuery, buildDeleteQuery and the INSERT of createSingle, each  *)
(* with ToSql, for every dialect.                                           *)
(***************************************************************************)
JsonObject(item) == Body("object", item, <<>>)

BuildRequests ==
  { Request(m, p, q, "", "", EmptyBody) :
      m \in {"GET", "DELETE"}, p \in TablePaths, q \in Queries(MaxKeys) }
  \cup { Request("PUT", p, q, "application/json", "", JsonObject(item)) :
           p \in TablePaths, q \in Queries(MaxKeys), item \in Items }
  \cup { Request("POST", <<tb>>, <<>>, "application/json", "", JsonObject(item)) :
           tb \in TableNames, item \in Items }

NoOrders == [err |-> "", argOrder |-> <<>>, valOrder |-> <<>>]

InitBuild ==
  /\ config \in { c \in Configs : c.AllowRaw }
  /\ db = <<>>
  /\ phase = "idle"
  /\ req \in BuildRequests
  /\ env = Env("ok", TRUE)
  /\ handler = ""
  /\ stmts = <<>>
  /\ resp = NoResponse
  /\ logged = <<>>
  /\ arg = <<>>
  /\ result = NoOrders
  /\ MainStarted

\* The statement as it would be handed to the driver; result keeps ToSql's
\* error and the orders in which the range loops visited the maps.
Built(name, b, argOrder, valOrder) ==
  LET q == ToSql(config, b)
  IN  /\ stmts' = IF q.err = "" THEN <<Stmt(q, b)>> ELSE <<>>
      /\ result' = [err |-> q.err, argOrder |-> argOrder, valOrder |-> valOrder]
      /\ handler' = name
      /\ phase' = "done"
      /\ UNCHANGED <<config, db, req, env, resp, logged, arg, mainvars>>

BuildSelectQuery ==
  /\ phase = "idle"
  /\ req.method = "GET"
  /\ \E argOrder \in Perms(DOMAIN req.query) :
       Built("read", buildSelect(config, req, argOrder), argOrder, <<>>)

BuildInsertQuery ==
  /\ phase = "idle"
  /\ req.method = "POST"
  /\ \E itemOrder \in Perms(DOMAIN req.body.obj) :
       Built("create",
             buildInsert(config, parseRequest(config, req).table, req.body.obj, itemOrder),
             <<>>, itemOrder)

BuildUpdateQuery ==
  /\ phase = "idle"
  /\ req.method = "PUT"
  /\ \E valOrder \in Perms(DOMAIN req.body.obj), argOrder \in Perms(DOMAIN req.query) :
       Built("update", buildUpdate(config, req, req.body.obj, valOrder, argOrder),
             argOrder, valOrder)

BuildDeleteQuery ==
  /\ phase = "idle"
  /\ req.method = "DELETE"
  /\ \E argOrder \in Perms(DOMAIN req.query) :
       Built("del", buildDelete(config, req, argOrder), argOrder, <<>>)

NextBuild ==
  \/ BuildSelectQuery
  \/ BuildInsertQuery
  \/ BuildUpdateQuery
  \/ BuildDeleteQuery

SpecBuild == InitBuild /\ [][NextBuild]_vars

\* C1: no statement built by the select, update or delete builder carries a
\* WHERE condition on a column named __limit__, __offset__ or __order_by__.
C1_ControlKeysNeverFilter ==
  \A i \in 1..Len(stmts) :
    stmts[i].plan.kind \in {"select", "update", "delete"} =>
      \A j \in 1..Len(stmts[i].plan.where) : stmts[i].plan.where[j].key \notin ControlKeys

\* The statement of the request was built and rendered by one of the builders.
StatementBuilt ==
  /\ phase = "done"
  /\ handler \in {"read", "create", "update", "del"}
  /\ stmts # <<>>

\* The names the request supplies: the table segment, the body's keys, the filter keys.
RequestNames(r) ==
  {parseRequest(config, r).table}
  \cup (IF r.body.kind = "object" THEN DOMAIN r.body.obj ELSE {})
  \cup (DOMAIN r.query \ ControlKeys)

HasReservedChar(name) == \E i \in 1..Len(name) : name[i] = " "

OccursAt(sql, name, i) ==
  /\ i + Len(name) - 1 <= Len(sql)
  /\ SubSeq(sql, i, i + Len(name) - 1) = name

DialectQuote == IF config.Dbtype = "mysql" THEN BackQuote ELSE DoubleQuote

QuotedAt(sql, name, i) ==
  /\ i > 1
  /\ sql[i - 1] = DialectQuote
  /\ i + Len(name) <= Len(sql)
  /\ sql[i + Len(name)] = DialectQuote

\* C5: in every generated statement, a table or column name of the request
\* that holds a reserved character stands in the SQL text only between the
\* dialect's quotes (backquotes for mysql, double quotes otherwise).
C5_ReservedNamesOnlyQuoted ==
  StatementBuilt =>
    \A name \in RequestNames(req) :
      HasReservedChar(name) =>
        \A i \in 1..Len(stmts[1].sql) :
          OccursAt(stmts[1].sql, name, i) => QuotedAt(stmts[1].sql, name, i)

\* The builder handles the key itself instead of filtering on it.
IsControlKey(method, key) == IF method = "GET" THEN key \in ControlKeys ELSE key = KeyLimit

\* The request with every value it supplies (row id, filter values, body values) set to v.
WithValues(r, v) ==
  [r EXCEPT
     !.path  = IF Len(@) > 1 THEN <<@[1], v>> ELSE @,
     !.query = [k \in DOMAIN @ |->
                  IF IsControlKey(r.method, k) THEN @[k] ELSE [i \in 1..Len(@[k]) |-> v]],
     !.body  = IF @.kind = "object" THEN [@ EXCEPT !.obj = [k \in DOMAIN @ |-> v]] ELSE @]

\* What the builder of the request's method renders, the maps ranged over in the given orders.
Rendered(r, argOrder, valOrder) ==
  IF r.method = "GET" THEN ToSql(config, buildSelect(config, r, argOrder))
  ELSE IF r.method = "PUT"
    THEN ToSql(config, buildUpdate(config, r, r.body.obj, valOrder, argOrder))
  ELSE IF r.method = "DELETE" THEN ToSql(config, buildDelete(config, r, argOrder))
  ELSE ToSql(config, buildInsert(config, parseRequest(config, r).table, r.body.obj, valOrder))

IsPlaceholder(fragment) == fragment = "?" \/ \E n \in 1..20 : fragment = "$" \o ToString(n)

\* Values no request of the model carries: another number, a placeholder, a quote.
OtherValues == {<<"2", "2">>, <<"?">>, <<"'", ";">>}

\* C6: the SQL text of a built statement has as many placeholders as bound
\* arguments, and the request with other values in place of its row id,
\* filter values and body values renders the same SQL text, with exactly
\* those values as its arguments.
C6_ValuesOnlyBound ==
  StatementBuilt =>
    /\ Cardinality({ i \in 1..Len(stmts[1].sql) : IsPlaceholder(stmts[1].sql[i]) })
         = Len(stmts[1].args)
    /\ \A v \in OtherValues :
         LET other == Rendered(WithValues(req, v), result.argOrder, result.valOrder)
         IN  /\ other.err = ""
             /\ other.sql = stmts[1].sql
             /\ other.args = [i \in 1..Len(stmts[1].args) |-> v]

\* A statement with a row id, a filter and body values, all bound.
C6_Witness ==
  /\ StatementBuilt
  /\ handler = "update"
  /\ Len(req.path) > 1
  /\ Len(stmts[1].args) >= 3
  /\ KeyId \in DOMAIN req.query

(***************************************************************************)
(* Properties of the server.                                                *)
(***************************************************************************)
\* A GET on /T/v answered, with no id among its query parameters.
PathIdRead ==
  /\ phase = "done"
  /\ handler = "read"
  /\ Len(req.path) > 1
  /\ KeyId \notin DOMAIN req.query

\* The request on /T with id=v added to the query parameters of r, a request on /T/v.
ByQueryId(r) ==
  [r EXCEPT !.path  = <<@[1]>>,
            !.query = [k \in DOMAIN @ \cup {KeyId} |-> IF k = KeyId THEN <<r.path[2]>> ELSE @[k]]]

\* The response to request r on the table as it stands, its parameters ranged over in order.
ReadResponse(r, order, headers) ==
  LET out == read(config, db, r, order, NoFault)
  IN  writeResponse(r, out.data, out.err, headers)

\* C2: GET /T/v is answered as GET /T?id=v is on the same table, whatever
\* other query parameters both carry and in whatever order they are read.
C2_PathIdIsIdFilter ==
  PathIdRead =>
    \A order \in Perms(DOMAIN ByQueryId(req).query) :
      \E headers \in ColumnOrders : ReadResponse(ByQueryId(req), order, headers) = resp

\* GET /t/v with another filter on a table of two rows, one of them returned.
C2_Witness ==
  /\ PathIdRead
  /\ ColKey \in DOMAIN req.query
  /\ Len(db) = 2
  /\ resp.status = StatusOK
  /\ Len(resp.body.rows) = 1

\* A request to the base URL answered while raw queries are disabled.
BaseUrlRawDisabled ==
  /\ phase = "done"
  /\ handler \in {"raw", "health", ""}
  /\ ~config.AllowRaw
  /\ IsBaseUrl(config, req.path)

LimitRead ==
  /\ phase = "done"
  /\ handler = "read"
  /\ KeyLimit \in DOMAIN req.query

LimitText == req.query[KeyLimit][1]

WithoutLimit(r) == [r EXCEPT !.query = [k \in DOMAIN @ \ {KeyLimit} |-> @[k]]]

\* The SQL text carries LIMIT followed by the digits and nothing else of the number.
HasLimit(sql, digits) ==
  \E i \in 1..Len(sql) :
    /\ sql[i] = " LIMIT "
    /\ OccursAt(sql, digits, i + 1)
    /\ (i + Len(digits) = Len(sql) \/ sql[i + Len(digits) + 1] = " OFFSET ")

\* C7: a GET with __limit__=N, N an integer >= 0, sends a statement with
\* LIMIT N and is answered with at most N rows; a GET whose __limit__ does
\* not parse as an integer sends a statement without LIMIT and is answered
\* as the same request without __limit__ is.
C7_LimitBoundsRows ==
  LimitRead =>
    /\ (AtoiOk(LimitText) /\ Atoi(LimitText) >= 0) =>
         /\ stmts # <<>>
         /\ HasLimit(stmts[1].sql, Itoa(Atoi(LimitText)))
         /\ resp.status = StatusOK => Len(resp.body.rows) <= Atoi(LimitText)
    /\ ~AtoiOk(LimitText) =>
         /\ stmts # <<>>
         /\ \A i \in 1..Len(stmts[1].sql) : stmts[1].sql[i] # " LIMIT "
         /\ \A order \in Perms(DOMAIN WithoutLimit(req).query) :
              ReadResponse(WithoutLimit(req), order, <<>>) = resp

\* __limit__=1 on a table of two rows that the filter both selects: one row returned.
C7_Witness ==
  /\ LimitRead
  /\ LimitText = <<"1">>
  /\ Len(db) = 2
  /\ resp.status = StatusOK
  /\ Len(resp.body.rows) = 1
  /\ \A i \in 1..Len(db) : RowMatches(db[i], stmts[1].plan)

\* __limit__=x on a table of two rows: both returned.
C7_WitnessUnparsed ==
  /\ LimitRead
  /\ ~AtoiOk(LimitText)
  /\ resp.status = StatusOK
  /\ Len(resp.body.rows) = 2

\* The statement sent was answered with an error by db.Query or db.Exec.
StatementFailed ==
  /\ stmts # <<>>
  /\ IF \/ stmts[1].plan.kind = "select"
        \/ stmts[1].plan.kind = "raw" /\ detectQueryType(stmts[1].sql) = "read"
       THEN QueryErr(config, stmts[1]) # ""
       ELSE ExecErr(config, stmts[1]) # ""

\* Handling the request met an error: before any statement was sent (the
\* request or the statement could not be made), from the statement, or from
\* the RowsAffected call on its result.
RequestErred ==
  /\ phase = "done"
  /\ handler \in {"read", "create", "update", "del", "raw", ""}
  /\ (stmts = <<>> \/ StatementFailed \/ env.drv = "rafail")

\* C9: a request whose handling met an error (parsing, building, execution
\* or a failing driver result call) is answered with a status other than
\* 200 and a body that carries the error message.
C9_ErrorsNeverAnswered200 ==
  RequestErred => (resp.status # StatusOK /\ resp.body.msg # "")

\* The rows_affected of the response is 0, in JSON or in delimited output.
ZeroRowsAffected(response) ==
  \/ response.body.kind = "object" /\ response.body.affected = 0
  \/ response.body.kind = "csv" /\ response.body.lines = << <<"rows_affected">>, <<"0">> >>

\* The statement is a DELETE or UPDATE with a WHERE clause that the engine runs.
WriteWithWhere(name, sent) ==
  /\ name \in {"del", "update"}
  /\ sent # <<>>
  /\ sent[1].plan.where # <<>>
  /\ ExecErr(config, sent[1]) = ""

NotOneJsonObject(r) == r.contentType # "application/json" \/ r.body.kind # "object"

C11_BadBodyRejectedUnchanged ==
  [][(/\ phase = "idle"
      /\ phase' = "done"
      /\ handler' \in {"create", "update"}
      /\ NotOneJsonObject(req'))
       => (/\ resp'.status = StatusBadRequest
           /\ stmts' = <<>>
           /\ db' = db)]_vars

\* a PUT whose body is JSON null, and a POST of an object sent as text/plain
C11_Witness ==
  /\ phase = "done"
  /\ \/ handler = "update" /\ req.contentType = "application/json" /\ req.body.kind = "null"
     \/ handler = "create" /\ req.contentType = "text/plain" /\ req.body.kind = "object"
  /\ db # <<>>
  /\ resp.status = StatusBadRequest
  /\ stmts = <<>>

(***************************************************************************)
(* C12: a raw request whose SQL text was extracted (a content type raw      *)
(* reads, and for application/json a body that unmarshals) and is empty     *)
(* once surrounding whitespace is removed is answered 400 "empty query",     *)
(* and nothing is handed to the driver.                                     *)
(***************************************************************************)
SqlExtracted(r) ==
  \/ r.contentType = "text/plain"
  \/ r.contentType = "application/json" /\ r.body.kind \in {"object", "null"}
  \/ r.contentType \in {"multipart/form-data", "application/x-www-form-urlencoded"}

OnlyWhiteSpace(str) == \A i \in 1..Len(str) : str[i] \in WhiteSpace

C12_EmptyRawQueryRejected ==
  (/\ phase = "done"
   /\ handler = "raw"
   /\ SqlExtracted(req)
   /\ OnlyWhiteSpace(RawSqlQuery(req)))
    => (/\ resp.status = StatusBadRequest
        /\ resp.body.msg = "empty query"
        /\ stmts = <<>>)

\* the text of two spaces, posted as text/plain
C12_Witness ==
  /\ phase = "done"
  /\ handler = "raw"
  /\ req.contentType = "text/plain"
  /\ req.body.text = <<" ", " ">>
  /\ resp.body.msg = "empty query"
  /\ stmts = <<>>

(***************************************************************************)
(* C13: with a JSON response, a query that ran without error and produced   *)
(* no row is answered 200 with an empty JSON array, never with null.        *)
(***************************************************************************)
\* the statement sent is a query (read, or raw with a read statement)
QuerySent ==
  /\ stmts # <<>>
  /\ \/ handler = "read"
     \/ handler = "raw" /\ detectQueryType(stmts[1].sql) = "read"

NoRowsProduced ==
  /\ QueryErr(config, stmts[1]) = ""
  /\ DriverRows(db, stmts[1]) = <<>>

JsonMode(r) == r.accept \notin {"text/csv", "text/tsv"}

C13_NoRowsIsEmptyArray ==
  (phase = "done" /\ JsonMode(req) /\ QuerySent /\ NoRowsProduced)
    => (/\ resp.status = StatusOK
        /\ resp.body.kind = "array"
        /\ resp.body.rows = <<>>)

\* GET /t?key=2 on a table whose rows all have another key
C13_Witness ==
  /\ phase = "done"
  /\ handler = "read"
  /\ JsonMode(req)
  /\ db # <<>>
  /\ DOMAIN req.query = {ColKey}
  /\ QuerySent
  /\ NoRowsProduced
  /\ resp.body.kind = "array"

(***************************************************************************)
(* C14: after a JSON object was posted to /T with success, a GET /T         *)
(* filtered by every posted key=value pair, with nothing in between,        *)
(* answers with at least one row that carries all the posted values.        *)
(***************************************************************************)
PostSucceeded ==
  /\ phase = "done"
  /\ handler = "create"
  /\ req.contentType = "application/json"
  /\ req.body.kind = "object"
  /\ resp.status = StatusOK

\* GET /T?k=v&... for the pairs of the object posted
GetPosted(r) ==
  Request("GET", r.path, [k \in DOMAIN r.body.obj |-> <<r.body.obj[k]>>], "", "", EmptyBody)

CarriesPosted(row, item) == \A k \in DOMAIN item : row[k] = item[k]

C14_PostedRowIsFound ==
  PostSucceeded =>
    \A argOrder \in Perms(DOMAIN req.body.obj) :
      LET got == read(config, db, GetPosted(req), argOrder, NoFault)
      IN  /\ got.err = NoErr
          /\ \E i \in 1..Len(got.data.rows) : CarriesPosted(got.data.rows[i], req.body.obj)

(***************************************************************************)
(* C15: a PUT or DELETE on a table that succeeded (the statement ran and    *)
(* RowsAffected answered).                                                  *)
(***************************************************************************)
WriteSucceeded(name, sent, environment) ==
  /\ name \in {"update", "del"}
  /\ sent # <<>>
  /\ ExecErr(config, sent[1]) = ""
  /\ environment.drv = "ok"

ReportsRowsAffected(response, n) ==
  \/ response.body.kind = "object" /\ response.body.affected = n
  \/ response.body.kind = "csv" /\ response.body.lines = << <<"rows_affected">>, Itoa(n) >>

MaxNameLen == 2

NameChars == {"a", "A", "t"}

\* The table names of at most MaxNameLen characters.
ShortNames == UNION { [1..n -> NameChars] : n \in 1..MaxNameLen }

SchemaCustom == <<"m","y","s","c","h","e","m","a">>

Schemas == {<<>>, SchemaPublic, SchemaCustom}

TableNameInputs == [Dbtype : Dbtypes, Schema : Schemas, tableName : ShortNames]

InitTableName ==
  /\ ServerAtRest
  /\ arg \in TableNameInputs
  /\ result = <<>>

\* config := Config{Dbtype: tc.dbtype, Schema: tc.schema}; config.GetTableName(tc.tableName)
TestTableName ==
  /\ phase = "idle"
  /\ result' = GetTableName([FixedConfig EXCEPT !.Dbtype = arg.Dbtype, !.Schema = arg.Schema],
                            arg.tableName)
  /\ handler' = "GetTableName"
  /\ phase' = "done"
  /\ UNCHANGED <<config, db, req, env, stmts, resp, logged, arg, mainvars>>

NextTableName == TestTableName

SpecTableName == InitTableName /\ [][NextTableName]_vars

HasUpperCase(name) == \E i \in 1..Len(name) : \E j \in 1..26 : name[i] = UpperCase[j]

\* The name the cases of testTableName expect.
ExpectedTableName(dbtype, schema, name) ==
  LET quoted == IF HasUpperCase(name) THEN <<DoubleQuote>> \o name \o <<DoubleQuote>> ELSE name
  IN  IF dbtype # "postgres" THEN name
      ELSE IF schema # <<>> /\ schema # SchemaPublic THEN schema \o <<".">> \o quoted
      ELSE quoted

\* C16: GetTableName returns, for postgres, the name in double quotes when it
\* has an uppercase letter, prefixed with the schema and a dot when the schema
\* is neither empty nor public, and the bare name otherwise; for mysql and
\* sqlite3 it returns the name as given.
C16_TableNameQuotedAndQualified ==
  (phase = "done" /\ handler = "GetTableName")
    => result = ExpectedTableName(arg.Dbtype, arg.Schema, arg.tableName)

(***************************************************************************)
(* C17: a request for a table whose table segment is empty.                 *)
(***************************************************************************)
EmptyTableRequest ==
  /\ phase = "done"
  /\ ~IsBaseUrl(config, req.path)
  /\ parseRequest(config, req).table = <<>>

\* C17: a table request with an empty table segment is answered 400,
\* whatever its method, and no statement is handed to the driver.
C17_EmptyTableRejected ==
  EmptyTableRequest => (resp.status = StatusBadRequest /\ stmts = <<>>)

\* The part that holds for the methods HandleQuery routes: the answer is 400.
C17_RoutedMethodsAnswered400 ==
  (EmptyTableRequest /\ req.method \in {"GET", "POST", "PUT", "DELETE"})
    => resp.status = StatusBadRequest

(***************************************************************************)
(* read and readQuery applied to a GET while the driver fails at some       *)
(* point of the iteration: arg is the request and the fault, result what    *)
(* readQuery returned, resp what writeResponse wrote for read's result.     *)
(***************************************************************************)
\* GET /t, /t/1, /t?key=1, /t?__limit__=1
FaultedRequests ==
  { Request("GET", p, <<>>, "", "", EmptyBody) : p \in {<<TableT>>, <<TableT, <<"1">> >>} }
  \cup { Request("GET", <<TableT>>, [k \in {ColKey} |-> << <<"1">> >>], "", "", EmptyBody),
         Request("GET", <<TableT>>, [k \in {KeyLimit} |-> << <<"1">> >>], "", "", EmptyBody) }

Faults ==
  {NoFault, Fault("columns", 0)} \cup { Fault(in, at) : in \in {"scan", "next"}, at \in 0..MaxRows }

\* The fault can happen on these rows: Scan fails on a row there is, Next
\* ends the loop at or before the last row.
FaultFits(fault, rows) ==
  /\ fault.in = "scan" => fault.at < Len(rows)
  /\ fault.in = "next" => fault.at <= Len(rows)

\* The statement read builds for the request.
StatementOf(c, r, argOrder) ==
  LET b == buildSelect(c, r, argOrder) IN Stmt(ToSql(c, b), b)

InitReadQuery ==
  /\ config \in { c \in Configs : c.AllowRaw }
  /\ db \in Databases
  /\ phase = "idle"
  /\ req = NoRequest
  /\ env = Env("ok", TRUE)
  /\ handler = ""
  /\ stmts = <<>>
  /\ resp = NoResponse
  /\ logged = <<>>
  /\ arg \in [req : FaultedRequests, fault : Faults]
  /\ \A argOrder \in Perms(DOMAIN arg.req.query) :
       FaultFits(arg.fault, DriverRows(db, StatementOf(config, arg.req, argOrder)))
  /\ result = [rows |-> <<>>, err |-> ""]
  /\ MainStarted

ReadQuery ==
  /\ phase = "idle"
  /\ \E argOrder \in Perms(DOMAIN arg.req.query) :
       LET out     == read(config, db, arg.req, argOrder, arg.fault)
           written == writeResponse(arg.req, out.data, out.err, <<>>)
       IN  /\ out.stmts # <<>>
           /\ result' = readQuery(config, db, out.stmts[1], arg.fault)
           /\ req' = arg.req
           /\ stmts' = out.stmts
           /\ resp' = written
           /\ logged' = <<written.returned>>
  /\ handler' = "readQuery"
  /\ phase' = "done"
  /\ UNCHANGED <<config, db, env, arg, mainvars>>

NextReadQuery == ReadQuery

SpecReadQuery == InitReadQuery /\ [][NextReadQuery]_vars

\* C18: readQuery returns either every row the driver had, in the driver's
\* order, and no error, or no row and an error; when Scan or the iteration
\* fails after some rows were read, those rows reach neither the caller nor
\* the response.
C18_ReadQueryAllOrNothing ==
  (phase = "done" /\ handler = "readQuery") =>
    LET produced == DriverRows(db, stmts[1])
    IN  /\ \/ result.err = "" /\ result.rows = produced
           \/ result.err # "" /\ result.rows = <<>>
        /\ result.err = "" <=> (arg.fault = NoFault /\ QueryErr(config, stmts[1]) = "")
        /\ result.err # "" =>
             (/\ resp.status = StatusBadRequest
              /\ resp.body.rows = <<>>
              /\ resp.body.lines = <<>>)
        /\ result.err = "" => (resp.status = StatusOK /\ resp.body.rows = produced)

\* Scan fails on the second of two rows
C18_Witness ==
  /\ phase = "done"
  /\ handler = "readQuery"
  /\ arg.fault = Fault("scan", 1)
  /\ Len(DriverRows(db, stmts[1])) = 2
  /\ result.rows = <<>>
  /\ result.err # ""
  /\ resp.status = StatusBadRequest

(***************************************************************************)
(* One request whose database call is in flight while the client goes       *)
(* away.  arg is the state of the request's context (r.Context()); result   *)
(* is the driver call: the context it was given, how far it is, and what    *)
(* it returns once it completes.  db.Query(sql, args...) and                *)
(* db.Exec(sql, args...) are QueryContext and ExecContext with              *)
(* context.Background(), the only calls the handlers make.                  *)
(***************************************************************************)
\* GET /t, DELETE /t, DELETE /t/1, PUT /t/1 {"key": "2"}, POST /t {"id": "2", "key": "2"}
InFlightRequests ==
  { Request(m, p, <<>>, "", "", EmptyBody) :
      m \in {"GET", "DELETE"}, p \in {<<TableT>>, <<TableT, <<"1">> >>} }
  \cup { Request("PUT", <<TableT, <<"1">> >>, <<>>, "application/json", "",
                 Body("object", [k \in {ColKey} |-> <<"2">>], <<>>)),
         Request("POST", <<TableT>>, <<>>, "application/json", "",
                 Body("object", [k \in Columns |-> <<"2">>], <<>>)) }

\* The handler's outcome for the request, its maps ranged over in the given order.
Handle(c, table, r, order) ==
  IF r.method = "GET" THEN read(c, table, r, <<>>, NoFault)
  ELSE IF r.method = "POST" THEN create(c, table, r, order, "ok")
  ELSE IF r.method = "PUT" THEN update(c, table, r, order, <<>>, "ok")
  ELSE del(c, table, r, <<>>, "ok")

DriverCall(ctx, state, out) == [ctx |-> ctx, state |-> state, out |-> out]

NoCall == DriverCall("", "none", Out(NilData, NoErr, <<>>, <<>>))

InitCancel ==
  /\ config \in Configs
  /\ db \in Databases
  /\ phase = "idle"
  /\ req = NoRequest
  /\ env = Env("ok", TRUE)
  /\ handler = ""
  /\ stmts = <<>>
  /\ resp = NoResponse
  /\ logged = <<>>
  /\ arg = "active"
  /\ result = NoCall
  /\ MainStarted

\* The handler builds its statement and calls db.Query or db.Exec, which hand
\* the driver context.Background().
BeginCall ==
  /\ phase = "idle"
  /\ \E r \in InFlightRequests :
       \E order \in Perms(DOMAIN r.body.obj) :
         LET out == Handle(config, db, r, order)
         IN  /\ out.stmts # <<>>
             /\ Len(out.db) <= MaxRows
             /\ req' = r
             /\ stmts' = out.stmts
             /\ result' = DriverCall("background", "running", out)
  /\ phase' = "calling"
  /\ UNCHANGED <<config, db, env, handler, resp, logged, arg, mainvars>>

\* The client goes away or the deadline passes: r.Context() is cancelled.
CancelRequest ==
  /\ phase = "calling"
  /\ arg = "active"
  /\ arg' = "cancelled"
  /\ UNCHANGED <<config, db, phase, req, env, handler, stmts, resp, logged, result, mainvars>>

\* The driver finishes the statement, unless the context it was given is the
\* request's and that is cancelled; the handler returns and HandleQuery
\* writes the response.
CompleteCall ==
  /\ phase = "calling"
  /\ ~(result.ctx = "request" /\ arg = "cancelled")
  /\ LET written == writeResponse(req, result.out.data, result.out.err, <<>>)
     IN  /\ resp' = written
         /\ logged' = <<written.returned>>
  /\ db' = result.out.db
  /\ result' = [result EXCEPT !.state = "completed"]
  /\ handler' = "HandleQuery"
  /\ phase' = "done"
  /\ UNCHANGED <<config, req, env, stmts, arg, mainvars>>

NextCancel == BeginCall \/ CancelRequest \/ CompleteCall

SpecCancel == InitCancel /\ [][NextCancel]_vars

\* C19: when the request's context is cancelled while its database call is
\* in flight, the call is abandoned: it does not run to completion for the
\* cancelled request.
C19_CancelledCallAbandoned ==
  arg = "cancelled" => result.state # "completed"

(***************************************************************************)
(* The builders under every Dbtype and Schema: the requests of a table      *)
(* with at most one query key, the builders applied as in SpecBuild.        *)
(***************************************************************************)
SchemaConfigs == [Dbtype : Dbtypes, AllowRaw : {TRUE}, Url : {<< <<>> >>}, Schema : Schemas]

SchemaRequests ==
  { Request(m, p, q, "", "", EmptyBody) :
      m \in {"GET", "DELETE"}, p \in {<<TableT>>, <<TableT, <<"1">> >>}, q \in OneKeyQueries }
  \cup { Request("PUT", <<TableT>>, q, "application/json", "", JsonObject(item)) :
           q \in OneKeyQueries, item \in PutItems }
  \cup { Request("POST", <<TableT>>, <<>>, "application/json", "", JsonObject(item)) :
           item \in PutItems }

InitSchema ==
  /\ config \in SchemaConfigs
  /\ db = <<>>
  /\ phase = "idle"
  /\ req \in SchemaRequests
  /\ env = Env("ok", TRUE)
  /\ handler = ""
  /\ stmts = <<>>
  /\ resp = NoResponse
  /\ logged = <<>>
  /\ arg = <<>>
  /\ result = NoOrders
  /\ MainStarted

SpecSchema == InitSchema /\ [][NextBuild]_vars

\* C20: with Dbtype postgres and a Schema that is neither empty nor public,
\* every statement built for a table request names the table schema.table;
\* in every other configuration it names the bare table.
C20_StatementsNameSchemaTable ==
  StatementBuilt => stmts[1].plan.table = GetTableName(config, parseRequest(config, req).table)

(***************************************************************************)
(* C24: the UPDATE and DELETE statements of table requests and their WHERE  *)
(* clause                                                                   *)
(***************************************************************************)

\* The statement is an UPDATE or DELETE that the engine runs.
WriteExecuted(c, st) ==
  /\ st.plan.kind \in {"update", "delete"}
  /\ ExecErr(c, st) = ""

\* C24: every UPDATE or DELETE statement executed for a table request carries
\* a WHERE clause, so that a PUT or DELETE with no row id in the path and no
\* filter parameter is never executed against all rows of the table.
C24_WritesCarryWhere ==
  \A i \in 1..Len(stmts) :
    (handler \in {"update", "del"} /\ WriteExecuted(config, stmts[i]))
      => stmts[i].plan.where # <<>>

(***************************************************************************)
(* C25: with AllowRaw false no request reaches raw()                        *)
(***************************************************************************)

\* The kinds of statement the statement builders produce.
BuilderKinds == {"select", "insert", "update", "delete"}

\* The request carries a statement of its own: a POST on the base URL with a
\* body from which raw() would take an SQL text that is not blank.
CarriesSqlText(r) ==
  /\ r.method = "POST"
  /\ IsBaseUrl(config, r.path)
  /\ SqlExtracted(r)
  /\ ~OnlyWhiteSpace(RawSqlQuery(r))

\* C25: when AllowRaw is false, whatever requests were handled before, raw()
\* is not invoked and every statement handed to the database is one produced
\* by a statement builder; no SQL text of a request body reaches the database.
C25_NoRawWithoutAllowRaw ==
  ~config.AllowRaw =>
    /\ handler # "raw"
    /\ \A i \in 1..Len(stmts) :
         /\ stmts[i].plan.kind \in BuilderKinds
         /\ stmts[i].sql = ToSql(config, stmts[i].plan).sql
    /\ (phase = "done" /\ CarriesSqlText(req)) => stmts = <<>>

\* A POST of an SQL text on the base URL, handled with AllowRaw false.
C25_Witness ==
  /\ ~config.AllowRaw
  /\ phase = "done"
  /\ CarriesSqlText(req)
  /\ req.body.kind = "text"
  /\ handler = "health"

(***************************************************************************)
(* C28: the log line of a request and the status of its response            *)
(***************************************************************************)

\* C28: for every request handled by HandleQuery exactly one log line is
\* written, and the status code passed to logRequest equals the status code
\* written to the HTTP response.
C28_LoggedStatusIsWritten ==
  phase = "done" =>
    /\ Len(logged) = 1
    /\ logged[1] = resp.status

(***************************************************************************)
(* The process: main and the goroutines it starts (signal handler,          *)
(* autoBackup, selfDbCheck, selfHealthCheck), with HandleQuery running on   *)
(* the goroutines of net/http.  This is the revision that counts writes in  *)
(* totalWrites and saves the database with backupSqlite.  A request is      *)
(* taken here by its route and by whether its handler returned an error;    *)
(* the statements and the rows are those of Spec.  totalWrites is read and  *)
(* written without synchronisation, so totalWrites++ is a load and a store  *)
(* between which the other goroutines run.                                  *)
(***************************************************************************)

MaxWrites == 2

\* The Config of this revision: CanBackup is what config.CanBackup() returns
\* (config.IsSqlite3Memcache() in main.go), HealthCheckUrl the URL polled.
\* Raw queries are allowed, so that every kind of write can arrive.
MainConfigs ==
  { [Dbtype |-> "sqlite3", AllowRaw |-> TRUE, Url |-> << <<>> >>, Schema |-> <<>>,
     CanBackup |-> can, HealthCheckUrl |-> hc] :
      can \in BOOLEAN, hc \in {<<>>, <<"u">>} }

InitMain ==
  /\ config \in MainConfigs
  /\ db = <<>>
  /\ phase = "idle"
  /\ req = NoRequest
  /\ env = Env("ok", TRUE)
  /\ handler = ""
  /\ stmts = <<>>
  /\ resp = NoResponse
  /\ logged = <<>>
  /\ arg = <<>>
  /\ result = ""
  /\ MainStarted

requestvars == <<config, db, phase, req, env, handler, stmts, resp, logged, arg, result>>

Running == exit = NotExited

\* os.Exit(status), or log.Fatalf for status 1, called by goroutine g
Exit(status, g) == exit' = [status |-> status, by |-> g]

Goto(g, loc) == pc' = [pc EXCEPT ![g] = loc]

\* What HandleQuery routes a request to; a raw query is a read or a write by
\* detectQueryType.
Operations == {"read", "create", "update", "del", "raw read", "raw write"}

TableWrites == {"create", "update", "del"}

\* The operation changed the database: a POST, PUT or DELETE on a table, or
\* a raw write statement, that returned no error.
WriteExecutedBy(op, failed) == op \in TableWrites \cup {"raw write"} /\ ~failed

\* The condition under which the request reaches totalWrites++: for a table
\* write if err != nil, for a raw write after db.Exec returned no error.
Counted(op, failed) ==
  \/ op \in TableWrites /\ failed
  \/ op = "raw write" /\ ~failed

\* The handlers that stand between the load and the store of totalWrites++,
\* or before the load.
Incrementing == {h \in Handlers : pc[h] \in {"load", "store"}}

\* The largest value of totalWrites in memory or in a handler's register.
Highest ==
  CHOOSE n \in {totalWrites} \cup {reg[h] : h \in Handlers} :
    \A m \in {totalWrites} \cup {reg[h] : h \in Handlers} : m <= n

\* HandleQuery up to the return of read, create, update, del or raw's db call
ServeRequest(h) ==
  /\ Running
  /\ server = "listening"
  /\ pc[h] = "idle"
  /\ Highest + Cardinality(Incrementing) < MaxWrites
  /\ \E op \in Operations, failed \in BOOLEAN :
       /\ op \in {"raw read", "raw write"} => config.AllowRaw
       /\ Goto(h, IF Counted(op, failed) THEN "load" ELSE "respond")
       /\ history' = [history EXCEPT
                        !.writesSince = @ \/ WriteExecutedBy(op, failed),
                        !.pendingRaw = @ \/ (op = "raw write" /\ ~failed)]
  /\ UNCHANGED <<requestvars, totalWrites, reg, server, sigs, done, exit>>

\* totalWrites++, first half: the value is loaded
IncrementLoad(h) ==
  /\ Running
  /\ pc[h] = "load"
  /\ reg' = [reg EXCEPT ![h] = totalWrites]
  /\ Goto(h, "store")
  /\ UNCHANGED <<requestvars, totalWrites, server, sigs, done, exit, history>>

\* totalWrites++ whose store writes back the value loaded: the increment is lost
IncrementStoreLost(h) ==
  /\ Running
  /\ pc[h] = "store"
  /\ totalWrites' = reg[h]
  /\ reg' = [reg EXCEPT ![h] = 0]
  /\ Goto(h, "respond")
  /\ UNCHANGED <<requestvars, server, sigs, done, exit, history>>

\* totalWrites++, second half: the value loaded plus one is stored
IncrementStore(h) ==
  /\ Running
  /\ pc[h] = "store"
  /\ totalWrites' = reg[h] + 1
  /\ reg' = [reg EXCEPT ![h] = 0]
  /\ Goto(h, "respond")
  /\ UNCHANGED <<requestvars, server, sigs, done, exit, history>>

\* writeResponse and logRequest: the handler returns
FinishRequest(h) ==
  /\ Running
  /\ pc[h] = "respond"
  /\ Goto(h, "idle")
  /\ UNCHANGED <<requestvars, totalWrites, reg, server, sigs, done, exit, history>>

\* SIGINT or SIGTERM is delivered; signal.Notify drops it when sigs is full
Signal ==
  /\ Running
  /\ sigs = <<>>
  /\ \E sig \in {"SIGINT", "SIGTERM"} : sigs' = <<sig>>
  /\ UNCHANGED <<requestvars, pc, totalWrites, reg, server, done, exit, history>>

\* sig := <-sigs, then server.Shutdown(ctx) closes the listeners
ReceiveSignal ==
  /\ Running
  /\ pc["signal"] = "sigs"
  /\ sigs # <<>>
  /\ sigs' = Tail(sigs)
  /\ server' = "shutting down"
  /\ Goto("signal", "Shutdown")
  /\ UNCHANGED <<requestvars, totalWrites, reg, done, exit, history>>

\* The location a goroutine is at after calling backupSqlite(config): inside
\* it when config.CanBackup(), past it otherwise.
backupSqlite(c, after) == IF c.CanBackup THEN "backupSqlite" ELSE after

\* server.Shutdown returns nil once no request is being handled, and the
\* goroutine calls backupSqlite
ShutdownReturns ==
  /\ Running
  /\ pc["signal"] = "Shutdown"
  /\ \A h \in Handlers : pc[h] = "idle"
  /\ server' = "closed"
  /\ Goto("signal", backupSqlite(config, "done"))
  /\ UNCHANGED <<requestvars, totalWrites, reg, sigs, done, exit, history>>

\* server.Shutdown returns the context's error after 5 seconds: log.Fatalf
ShutdownTimesOut ==
  /\ Running
  /\ pc["signal"] = "Shutdown"
  /\ \E h \in Handlers : pc[h] # "idle"
  /\ Exit(1, "signal")
  /\ UNCHANGED <<requestvars, pc, totalWrites, reg, server, sigs, done, history>>

\* done <- true
SendDone ==
  /\ Running
  /\ pc["signal"] = "done"
  /\ done = <<>>
  /\ done' = <<TRUE>>
  /\ Goto("signal", "end")
  /\ UNCHANGED <<requestvars, totalWrites, reg, server, sigs, exit, history>>

\* The callers of backupSqlite and where each continues when it returns.
BackupCallers == {"signal", "autoBackup", "selfHealthCheck"}

AfterBackup(g) ==
  CASE g = "signal" -> "done"
    [] g = "autoBackup" -> "ticker"
    [] g = "selfHealthCheck" -> "os.Exit"

\* backupSqlite: backup(backupdb, db) copies the database as it is now, the
\* backup database is closed and the function returns
BackupCompleted(g) ==
  /\ Running
  /\ pc[g] = "backupSqlite"
  /\ Goto(g, AfterBackup(g))
  /\ history' = [history EXCEPT !.pendingRaw = FALSE]
  /\ UNCHANGED <<requestvars, totalWrites, reg, server, sigs, done, exit>>

\* backupSqlite: InitSQLite, backup or Close returns an error: log.Fatalf
BackupFatal(g) ==
  /\ Running
  /\ pc[g] = "backupSqlite"
  /\ Exit(1, g)
  /\ UNCHANGED <<requestvars, pc, totalWrites, reg, server, sigs, done, history>>

\* autoBackup, case <-ticker.C: if totalWrites > 0
AutoBackupTick ==
  /\ Running
  /\ pc["autoBackup"] = "ticker"
  /\ Goto("autoBackup", IF totalWrites > 0 THEN "reset" ELSE "ticker")
  /\ history' = [history EXCEPT
                   !.ticked = TRUE,
                   !.hadWrites = history.writesSince,
                   !.backup = totalWrites > 0,
                   !.writesSince = FALSE,
                   !.pendingRaw = @ /\ ~(totalWrites > 0)]
  /\ UNCHANGED <<requestvars, totalWrites, reg, server, sigs, done, exit>>

\* autoBackup: totalWrites = 0, then backupSqlite(config)
AutoBackupReset ==
  /\ Running
  /\ pc["autoBackup"] = "reset"
  /\ totalWrites' = 0
  /\ Goto("autoBackup", backupSqlite(config, "ticker"))
  /\ UNCHANGED <<requestvars, reg, server, sigs, done, exit, history>>

\* selfDbCheck, case <-ticker.C: db.Ping() returns an error: os.Exit(1)
SelfDbCheckFails ==
  /\ Running
  /\ pc["selfDbCheck"] = "ticker"
  /\ Exit(1, "selfDbCheck")
  /\ UNCHANGED <<requestvars, pc, totalWrites, reg, server, sigs, done, history>>

\* selfHealthCheck returns at once when config.HealthCheckUrl is empty
SelfHealthCheckStart ==
  /\ Running
  /\ pc["selfHealthCheck"] = "start"
  /\ Goto("selfHealthCheck", IF config.HealthCheckUrl = <<>> THEN "end" ELSE "ticker")
  /\ UNCHANGED <<requestvars, totalWrites, reg, server, sigs, done, exit, history>>

\* The first http.Get with no retry: its failure goes on to the exit
SelfHealthCheckTickNoRetry ==
  /\ Running
  /\ pc["selfHealthCheck"] = "ticker"
  /\ \E ok \in BOOLEAN :
       /\ Goto("selfHealthCheck", IF ok THEN "ticker" ELSE backupSqlite(config, "os.Exit"))
       /\ history' = [history EXCEPT !.gets = <<ok>>]
  /\ UNCHANGED <<requestvars, totalWrites, reg, server, sigs, done, exit>>

\* selfHealthCheck, case <-ticker.C: the first http.Get
SelfHealthCheckTick ==
  /\ Running
  /\ pc["selfHealthCheck"] = "ticker"
  /\ \E ok \in BOOLEAN :
       /\ Goto("selfHealthCheck", IF ok THEN "ticker" ELSE "Sleep")
       /\ history' = [history EXCEPT !.gets = <<ok>>]
  /\ UNCHANGED <<requestvars, totalWrites, reg, server, sigs, done, exit>>

\* selfHealthCheck: after time.Sleep(5 * time.Second), the second http.Get
SelfHealthCheckRetry ==
  /\ Running
  /\ pc["selfHealthCheck"] = "Sleep"
  /\ \E ok \in BOOLEAN :
       /\ Goto("selfHealthCheck", IF ok THEN "ticker" ELSE backupSqlite(config, "os.Exit"))
       /\ history' = [history EXCEPT !.gets = Append(@, ok)]
  /\ UNCHANGED <<requestvars, totalWrites, reg, server, sigs, done, exit>>

\* selfHealthCheck: os.Exit(1)
SelfHealthCheckExit ==
  /\ Running
  /\ pc["selfHealthCheck"] = "os.Exit"
  /\ Exit(1, "selfHealthCheck")
  /\ UNCHANGED <<requestvars, pc, totalWrites, reg, server, sigs, done, history>>

\* server.ListenAndServe() returns http.ErrServerClosed once Shutdown was called
ListenAndServeReturns ==
  /\ Running
  /\ pc["main"] = "ListenAndServe"
  /\ server # "listening"
  /\ Goto("main", "done")
  /\ UNCHANGED <<requestvars, totalWrites, reg, server, sigs, done, exit, history>>

\* server.ListenAndServe() returns another error: log.Fatalf
ListenAndServeFails ==
  /\ Running
  /\ pc["main"] = "ListenAndServe"
  /\ server = "listening"
  /\ Exit(1, "main")
  /\ UNCHANGED <<requestvars, pc, totalWrites, reg, server, sigs, done, history>>

\* os.Exit(0) as soon as ListenAndServe has returned, without <-done
MainExitWithoutDone ==
  /\ Running
  /\ pc["main"] = "done"
  /\ Exit(0, "main")
  /\ UNCHANGED <<requestvars, pc, totalWrites, reg, server, sigs, done, history>>

\* <-done, then os.Exit(0)
MainExit ==
  /\ Running
  /\ pc["main"] = "done"
  /\ done # <<>>
  /\ done' = Tail(done)
  /\ Exit(0, "main")
  /\ UNCHANGED <<requestvars, pc, totalWrites, reg, server, sigs, history>>

NextMain ==
  \/ \E h \in Handlers : ServeRequest(h)
  \/ \E h \in Handlers : IncrementLoad(h)
  \/ \E h \in Handlers : IncrementStore(h)
  \/ \E h \in Handlers : FinishRequest(h)
  \/ Signal
  \/ ReceiveSignal
  \/ ShutdownReturns
  \/ ShutdownTimesOut
  \/ SendDone
  \/ \E g \in BackupCallers : BackupCompleted(g)
  \/ \E g \in BackupCallers : BackupFatal(g)
  \/ AutoBackupTick
  \/ AutoBackupReset
  \/ SelfDbCheckFails
  \/ SelfHealthCheckStart
  \/ SelfHealthCheckTick
  \/ SelfHealthCheckRetry
  \/ SelfHealthCheckExit
  \/ ListenAndServeReturns
  \/ ListenAndServeFails
  \/ MainExit

SpecMain == InitMain /\ [][NextMain]_vars

(***************************************************************************)
(* C21: the autoBackup tick and the writes since the previous tick          *)
(***************************************************************************)

\* C21: at each autoBackup tick a backup is taken if and only if at least
\* one write operation (a POST, PUT or DELETE on a table, or a raw write
\* statement) was executed successfully since the previous tick's check;
\* a tick with no successful write in between takes no backup.
C21_BackupIffWriteSinceTick ==
  (config.CanBackup /\ history.ticked) => (history.backup <=> history.hadWrites)

(***************************************************************************)
(* C22: selfHealthCheck ends the process after two failed GETs of one tick  *)
(***************************************************************************)

\* selfHealthCheck is on its way to os.Exit(1) or has ended the process.
HealthCheckExits ==
  \/ pc["selfHealthCheck"] \in {"backupSqlite", "os.Exit"}
  \/ exit.by = "selfHealthCheck"

\* C22: with a non-empty HealthCheckUrl, selfHealthCheck terminates the
\* process, with exit status 1, only when within one tick the health GET
\* failed and the single retry made after the backoff failed too; a failed
\* GET followed by a successful retry leaves the process running, waiting
\* for the next tick, whose GETs are counted afresh.
C22_ExitOnlyAfterGetAndRetryFail ==
  config.HealthCheckUrl # <<>> =>
    /\ HealthCheckExits => history.gets = <<FALSE, FALSE>>
    /\ exit.by = "selfHealthCheck" => exit.status = 1
    /\ history.gets = <<FALSE, TRUE>> =>
         (pc["selfHealthCheck"] = "ticker" /\ exit.by # "selfHealthCheck")
    /\ Len(history.gets) <= 2

\* The GET and its retry failed, the backup ran, and selfHealthCheck ended
\* the process.
C22_Witness ==
  /\ config.HealthCheckUrl # <<>>
  /\ config.CanBackup
  /\ exit = [status |-> 1, by |-> "selfHealthCheck"]
  /\ pc["selfHealthCheck"] = "os.Exit"
  /\ history.gets = <<FALSE, FALSE>>

\* A failed GET whose retry succeeded: the process runs on.
C22_RetrySucceeded ==
  /\ config.HealthCheckUrl # <<>>
  /\ history.gets = <<FALSE, TRUE>>
  /\ Running

(***************************************************************************)
(* C23: the order of Shutdown, the shutdown backup and os.Exit(0)           *)
(***************************************************************************)

\* The signal handler's backupSqlite has not returned: not yet called, or running.
ShutdownBackupOutstanding == pc["signal"] \in {"sigs", "Shutdown", "backupSqlite"}

\* C23: after SIGINT or SIGTERM the shutdown backup starts only after
\* server.Shutdown has returned, and the process exits with status 0 only
\* after ListenAndServe has returned and that backup has completed: it never
\* exits with status 0 while the shutdown backup is running or not yet started.
C23_ExitZeroAfterShutdownBackup ==
  /\ pc["signal"] = "backupSqlite" => server = "closed"
  /\ exit.status = 0 =>
       /\ exit.by = "main"
       /\ pc["main"] = "done"
       /\ server = "closed"
       /\ ~ShutdownBackupOutstanding

\* The process exited with status 0 after a signal, with backups enabled.
C23_Witness ==
  /\ config.CanBackup
  /\ exit = [status |-> 0, by |-> "main"]
  /\ pc["signal"] = "end"

(***************************************************************************)
(* C27: the runs of backupSqlite                                            *)
(***************************************************************************)

\* The goroutines that are inside backupSqlite, copying into the backup file.
RunningBackups == {g \in BackupCallers : pc[g] = "backupSqlite"}

\* C27: at most one backupSqlite run is in progress at any time: the
\* periodic autoBackup, the signal handler's shutdown backup and the
\* selfHealthCheck failure backup never copy into the backup file concurrently.
C27_OneBackupAtATime == Running => Cardinality(RunningBackups) <= 1

(***************************************************************************)
(* C26: a raw write and the unsynchronised totalWrites                      *)
(***************************************************************************)

\* The scheduling the claim supposes: the ticker of autoBackup keeps firing,
\* every goroutine that can run does run, and a call of backupSqlite returns
\* or ends the process.  Requests, signals and failures arrive as they like.
Scheduling ==
  /\ \A h \in Handlers : WF_vars(IncrementLoad(h)) /\ WF_vars(IncrementStore(h))
  /\ WF_vars(AutoBackupTick)
  /\ WF_vars(AutoBackupReset)
  /\ WF_vars(BackupCompleted("autoBackup") \/ BackupFatal("autoBackup"))

SpecMainFair == InitMain /\ [][NextMain]_vars /\ Scheduling

\* C26: although totalWrites is read, incremented and reset without
\* synchronisation by the request handlers and the autoBackup goroutine, no
\* successful raw write is lost to backup: with backups enabled, under every
\* interleaving, a raw write whose Exec has completed is followed by a tick
\* that finds totalWrites > 0 or by a backup snapshot taken after that Exec,
\* as long as the process runs.
C26_RawWriteReachesBackup ==
  (config.CanBackup /\ history.pendingRaw) ~> (~history.pendingRaw \/ ~Running)

\* A raw write was executed while autoBackup, after a tick that found
\* totalWrites > 0, is about to reset the counter: the increment of the
\* write and the reset race.
C26_Witness ==
  /\ config.CanBackup
  /\ Running
  /\ history.pendingRaw
  /\ pc["autoBackup"] = "reset"
  /\ \E h \in Handlers : pc[h] = "store" /\ reg[h] > 0

=============================================================================
